---- MODULE Spec2Model ----
(***************************************************************************)
(* Model of the pipecheck ingestion pipeline (backend/app/pipeline.py and  *)
(* backend/app/main.py).                                                   *)
(*                                                                         *)
(* Every ingestion run is a background task (process_csv_file) that owns   *)
(* one SQLAlchemy session (main.py:261) and walks through process_csv,     *)
(* process_batch and process_row.  The three tables (ingest_runs,          *)
(* data_rows, error_logs) are shared by all runs.  A session keeps the     *)
(* objects it has added but not yet flushed (pending), the rows it has     *)
(* flushed but not yet committed (flushed), and whether a failed flush     *)
(* has left it waiting for a rollback (inactive).  Runs of different       *)
(* worker processes interleave at the granularity of one row.              *)
(*                                                                         *)
(* A row of the source file is represented by what the repair, validation, *)
(* normalisation and hashing chain (process_row lines 268-296) makes of    *)
(* it: a valid row with a fingerprint, a row that raises ValidationError,  *)
(* or a row that raises another exception before the store is touched.     *)
(* Storage faults and unexpected exceptions are injected from one budget.  *)
(***************************************************************************)
EXTENDS Integers, FiniteSets, Sequences, TLC

\* ---------------------------------------------------------------- bounds
NumRuns == 2
NumHashes == 2
MaxRows == 3
BatchSize == 2
MaxFaults == 1
\* the rate limiter: requests per window, length of the window and of the clock,
\* rows of a run that need the collaborator (25 requests and 60 seconds in
\* ai_fixer.py, lines 23 and 43)
requests_per_minute == 2
Minute == 3
MaxTime == 7
MaxCalls == 3
\* distinct file contents among the uploads
NumContents == 2
\* columns of a row whose fingerprint is followed
MaxKeys == 3
\* characters of a first line whose delimiter is detected
MaxLine == 3
\* delete requests that are followed
MaxDeletes == 1
\* websockets that come to the connection manager
NumSockets == 3

RunIds == 1..NumRuns
WebSockets == 1..NumSockets
Hashes == 1..NumHashes

\* ------------------------------------------------------------- the inputs
RowKinds ==
    [v : {"ok"}, h : Hashes] \cup {[v |-> "invalid", h |-> 0], [v |-> "error", h |-> 0]}

\* header lines of the uploaded files

Repeated(headers) ==
    \E i \in 1..Len(headers), j \in 1..Len(headers) : i # j /\ headers[i] = headers[j]

\* An uploaded file: its size class (no byte, fewer than 1024 bytes, more), the
\* fields of its first line, whether pandas can parse it, and its data rows.
\* Files of 1024 bytes or more are taken with a header line only, files with a
\* repeated header with at most one data row.
Files ==
    LET HeaderLists ==
            {<<"email", "name">>, <<"email">>, <<"email", "name", "email">>,
             <<"name", "phone">>, <<"name", "name">>}
    IN
    {f \in [size : {"empty", "small", "large"}, headers : HeaderLists \cup {<<>>},
            parse : {"ok", "corrupt"}, rows : 0..MaxRows] :
        /\ f.size = "empty" <=> f.headers = <<>>
        /\ f.size = "empty" => f.rows = 0 /\ f.parse = "ok"
        /\ f.size = "large" => f.rows = 0
        /\ Repeated(f.headers) => f.rows <= 1
        /\ f.parse = "corrupt" => f.rows > 0 /\ f.headers = <<"email", "name">>}

NoFile == [size |-> "none"]

\* ------------------------------------------------------------- the tables
NoRun == [status |-> "absent"]

NewRun ==
    [status |-> "pending", total_rows |-> 0, rows_inserted |-> 0, rows_updated |-> 0,
     rows_skipped |-> 0, rows_rejected |-> 0, errors_count |-> 0, error_message |-> "none"]

ZeroResults ==
    [rows_inserted |-> 0, rows_updated |-> 0, rows_skipped |-> 0,
     rows_rejected |-> 0, errors_count |-> 0]

NoExc == "none"

VARIABLES
    runs,           \* ingest_runs table (committed): run id -> IngestRun or NoRun
    data_rows,      \* data_rows table (committed): set of DataRow
    error_logs,     \* error_logs table (committed): set of ErrorLog
    pending,        \* per session: DataRows added and not yet flushed
    flushed,        \* per session: DataRows flushed (INSERTed) and not yet committed
    inactive,       \* per session: a flush failed and no rollback() was issued yet
    pc,             \* position of each run's background task
    file,           \* the uploaded file of the run, once process_csv has opened it
    total,          \* len(df) of the run's file
    idx,            \* index of the next row of the run
    batch_start,    \* first row index of the batch being processed
    results,        \* process_csv's results dictionary
    batch_results,  \* process_batch's results dictionary
    exc,            \* exception travelling up the run's call stack
    log,            \* per run: the rows handed to process_row and their outcomes
    rolled_back,    \* per run: batch_start of the batch that was rolled back, or -1
    faults,         \* number of storage faults injected so far
    fault_at        \* per run: the position at which a storage fault last hit it

\* process_row seen on its own, for one row
VARIABLES
    columns,        \* list(row.index): the columns of the frame, in order
    row,            \* the row as read_csv delivered it
    enabled,        \* ai_fixer.enabled
    rpc,            \* position in process_row
    fixed_data,     \* the dictionary auto_fix_row returned, changed in place later
    fixes_applied,  \* the fixes listed so far
    first_error,    \* e, the error of the first lenient validation
    response,       \* what the external call of fix_row came to
    trace,          \* the stages the row went through and their results
    row_outcome     \* what process_batch made of the row

\* one worker process: its event loop, its clock and the rate limiter of ai_fixer
VARIABLES
    now,            \* time.time()
    request_count,  \* ai_fixer.request_count
    minute_start,   \* ai_fixer.minute_start
    admitted,       \* the times at which _rate_limit let a request through
    loop,           \* the run whose task the event loop is executing, or 0
    wpc,            \* per run: where its task is
    calls_left,     \* per run: rows still to be repaired by the collaborator
    wake_at         \* per run: when its time.sleep ends

\* the upload requests, one for each run id that upload_csv draws
VARIABLES
    upc,            \* per request: position in upload_csv
    upload,         \* per request: filename, content hash and force flag
    existing_run,   \* per request: what the query of line 203 returned, or 0
    file_hash       \* ingest_runs.file_hash of the runs created

\* the fingerprint of one validated row and of a second row made from it
VARIABLES
    hpc,            \* position: "validated", "hashed", "stored", "reloaded", "failed",
                    \* then what became of the second row: "skipped", "inserted"
    validated,      \* the validated row: <<key, value>> pairs in the order of the dict
    variant,        \* the second row
    normalized,     \* normalize_data of the two rows
    hashes,         \* generate_row_hash of the two
    stored_text,    \* data_rows.normalized_data of the first row
    reloaded_hash   \* generate_row_hash of the parsed stored_text

\* the texts of one row through auto-fix and validation
VARIABLES
    tpc,            \* position: "auto_fix", "validate", "normalize", "done"
    source,         \* the row of the reader: <<column, cell>> pairs
    text_data,      \* the dictionary process_row works on
    text_fixes,     \* fixes_applied
    again,          \* auto_fix_row applied to its own result
    both,           \* validate_row and validate_row_lenient on the row of the reader
    text_outcome    \* what becomes of the row

\* the first line of one file through detect_delimiter
VARIABLES
    dpc,            \* position: "read", "counted"
    first_line,     \* f.readline(): the characters of the first line
    best_delimiter  \* what detect_delimiter returned or raised

\* the delete requests of the clients
VARIABLES
    deleted         \* number of delete_run requests that went through

\* the connections of one ConnectionManager
VARIABLES
    active_connections, \* manager.active_connections: a list of websockets
    run_connections,    \* manager.run_connections: run id -> list of websockets
    websockets,         \* per websocket: where its endpoint is, its run id, its peer
    raised              \* per websocket: what manager.disconnect raised for it

pipelinevars == <<runs, data_rows, error_logs, pending, flushed, inactive, pc, file, total,
                  idx, batch_start, results, batch_results, exc, log, rolled_back, faults,
                  fault_at>>

rowvars == <<columns, row, enabled, rpc, fixed_data, fixes_applied, first_error, response,
             trace, row_outcome>>

workervars == <<now, request_count, minute_start, admitted, loop, wpc, calls_left, wake_at>>

uploadvars == <<upc, upload, existing_run, file_hash>>

hashvars == <<hpc, validated, variant, normalized, hashes, stored_text, reloaded_hash>>

textvars == <<tpc, source, text_data, text_fixes, again, both, text_outcome>>

delimitervars == <<dpc, first_line, best_delimiter>>

connectionvars == <<active_connections, run_connections, websockets, raised>>

\* what a step of a run leaves alone
othervars ==
    <<rowvars, workervars, uploadvars, hashvars, textvars, delimitervars, connectionvars,
      deleted>>

\* what a step of process_row seen on its own leaves alone
outside_row ==
    <<pipelinevars, workervars, uploadvars, hashvars, textvars, delimitervars,
      connectionvars, deleted>>

\* what a step of the worker leaves alone
outside_worker ==
    <<pipelinevars, rowvars, uploadvars, hashvars, textvars, delimitervars,
      connectionvars, deleted>>

\* what a step of upload_csv leaves alone, the runs table and the task queue apart
outside_upload ==
    <<data_rows, error_logs, pending, flushed, inactive, file, total, idx, batch_start,
      results, batch_results, exc, log, rolled_back, faults, fault_at, rowvars, workervars,
      hashvars, textvars, delimitervars, connectionvars, deleted>>

\* what a step of the fingerprint leaves alone
outside_hash ==
    <<pipelinevars, rowvars, workervars, uploadvars, textvars, delimitervars,
      connectionvars, deleted>>

\* what a step on the texts of a row leaves alone
outside_text ==
    <<pipelinevars, rowvars, workervars, uploadvars, hashvars, delimitervars,
      connectionvars, deleted>>

\* what a step of detect_delimiter leaves alone
outside_delimiter ==
    <<pipelinevars, rowvars, workervars, uploadvars, hashvars, textvars, connectionvars,
      deleted>>

\* what a step of the connection manager leaves alone
outside_connections ==
    <<pipelinevars, rowvars, workervars, uploadvars, hashvars, textvars, delimitervars,
      deleted>>

vars == <<pipelinevars, othervars>>

sessionvars == <<pending, flushed, inactive>>
tablevars == <<runs, data_rows, error_logs>>
loopvars == <<file, total, idx, batch_start, results, batch_results>>

InitPipeline ==
    /\ runs = [r \in RunIds |-> NoRun]
    /\ data_rows = {}
    /\ error_logs = {}
    /\ pending = [r \in RunIds |-> {}]
    /\ flushed = [r \in RunIds |-> {}]
    /\ inactive = [r \in RunIds |-> FALSE]
    /\ pc = [r \in RunIds |-> "idle"]
    /\ file = [r \in RunIds |-> NoFile]
    /\ total = [r \in RunIds |-> 0]
    /\ idx = [r \in RunIds |-> 0]
    /\ batch_start = [r \in RunIds |-> 0]
    /\ results = [r \in RunIds |-> ZeroResults]
    /\ batch_results = [r \in RunIds |-> ZeroResults]
    /\ exc = [r \in RunIds |-> NoExc]
    /\ log = [r \in RunIds |-> <<>>]
    /\ rolled_back = [r \in RunIds |-> -1]
    /\ faults = 0
    /\ fault_at = [r \in RunIds |-> "none"]

NoResponse == [kind |-> "none"]

NoOutcome == [result |-> "none"]

\* no row is being looked at on its own
IdleRow ==
    /\ columns = <<>>
    /\ row = <<>>
    /\ enabled = FALSE
    /\ rpc = "idle"
    /\ fixed_data = <<>>
    /\ fixes_applied = {}
    /\ first_error = <<>>
    /\ response = NoResponse
    /\ trace = <<>>
    /\ row_outcome = NoOutcome

\* the limiter as AIFixer.__init__ leaves it (lines 23-26), no task in the loop
IdleWorker ==
    /\ now = 0
    /\ request_count = 0
    /\ minute_start = 0
    /\ admitted = <<>>
    /\ loop = 0
    /\ wpc = [r \in RunIds |-> "idle"]
    /\ calls_left = [r \in RunIds |-> 0]
    /\ wake_at = [r \in RunIds |-> 0]

NoUpload == [filename |-> "none"]

\* no request is being followed through upload_csv
IdleUpload ==
    /\ upc = [r \in RunIds |-> "idle"]
    /\ upload = [r \in RunIds |-> NoUpload]
    /\ existing_run = [r \in RunIds |-> 0]
    /\ file_hash = [r \in RunIds |-> 0]

\* no fingerprint is being followed
IdleHash ==
    /\ hpc = "idle"
    /\ validated = <<>>
    /\ variant = <<>>
    /\ normalized = <<>>
    /\ hashes = <<>>
    /\ stored_text = <<>>
    /\ reloaded_hash = <<>>

\* no row is being followed through its texts
IdleText ==
    /\ tpc = "idle"
    /\ source = <<>>
    /\ text_data = <<>>
    /\ text_fixes = <<>>
    /\ again = [applied |-> FALSE]
    /\ both = [applied |-> FALSE]
    /\ text_outcome = NoOutcome

\* no first line is being looked at
IdleDelimiter ==
    /\ dpc = "idle"
    /\ first_line = <<>>
    /\ best_delimiter = "none"

NoSocket == [state |-> "none"]

\* no connection manager is being followed
IdleConnections ==
    /\ active_connections = <<>>
    /\ run_connections = <<>>
    /\ websockets = [w \in WebSockets |-> NoSocket]
    /\ raised = [w \in WebSockets |-> "none"]

\* no delete request has come
IdleDelete == deleted = 0

Init ==
    /\ InitPipeline
    /\ IdleRow
    /\ IdleWorker
    /\ IdleUpload
    /\ IdleHash
    /\ IdleText
    /\ IdleDelimiter
    /\ IdleConnections
    /\ IdleDelete

\* ------------------------------------------------------------ the session
\* sessionmaker(...) of database.py: a query first flushes the pending objects
AutoFlush == TRUE

Min(a, b) == IF a < b THEN a ELSE b

HashesOf(S) == {d.row_hash : d \in S}

\* actual_index = batch_start + index (line 227); index is the label iterrows
\* gives, which in a slice df.iloc[batch_start:batch_end] of a frame with the
\* default RangeIndex is the position of the row in the whole file
ActualIndex(start, index) == start + index

\* DataRow(row_hash=..., run_id=..., row_index=..., normalized_data=..., raw_data=...)
\* normalized_data and raw_data are named by the source row <<run, position>> they
\* come from
DataRow(h, r, i) ==
    [row_hash |-> h, run_id |-> r, row_index |-> ActualIndex(batch_start[r], i),
     normalized_data |-> <<r, i>>, raw_data |-> <<r, i>>]

\* ErrorLog(run_id=..., row_index=..., error_code=..., raw_data=...)
ErrorLog(r, i, code) ==
    [run_id |-> r, row_index |-> ActualIndex(batch_start[r], i), error_code |-> code,
     raw_data |-> <<r, i>>]

\* a table without the unique index on row_hash
FlushResultNoIndex(r, P) == "ok"

\* Flushing the DataRows P of session r: the INSERTs meet the unique index on
\* row_hash.  A committed row with the hash is a violation; an uncommitted row of
\* another session holds the index entry and the INSERT times out waiting for it.
FlushResultOf(r, P) ==
    IF \/ \E d \in P : d.row_hash \in HashesOf(data_rows)
       \/ \E d1 \in P, d2 \in P : d1 # d2 /\ d1.row_hash = d2.row_hash
    THEN "IntegrityError"
    ELSE IF \E s \in RunIds \ {r} : \E d \in P : d.row_hash \in HashesOf(flushed[s])
         THEN "OperationalError"
         ELSE "ok"

\* session state after the autoflush of a query
PendingAfterQuery(r) == IF AutoFlush THEN {} ELSE pending[r]
FlushedAfterQuery(r) == IF AutoFlush THEN flushed[r] \cup pending[r] ELSE flushed[r]
QueryFlush(r) == IF AutoFlush THEN FlushResultOf(r, pending[r]) ELSE "ok"

\* self.db.query(DataRow).filter(DataRow.row_hash == row_hash): the committed
\* rows and the rows this session has flushed
ExistingRows(r, h) ==
    {d \in data_rows \cup FlushedAfterQuery(r) : d.row_hash = h}

\* a storage fault hits the statement that run r is executing
Fault(r) ==
    /\ faults < MaxFaults
    /\ faults' = faults + 1
    /\ fault_at' = [fault_at EXCEPT ![r] = pc[r]]

NoFault ==
    /\ faults' = faults
    /\ UNCHANGED fault_at

\* ------------------------------------------------------------ the batches
BatchEnd(r) == Min(batch_start[r] + BatchSize, total[r])

Bump(res, key) == [res EXCEPT ![key] = @ + 1]

\* a rejection that is counted as an error only
RejectedUncounted(res) == Bump(res, "errors_count")

\* results["rows_rejected"] += 1; results["errors_count"] += 1 (lines 242-243, 249-250)
Rejected(res) == Bump(Bump(res, "rows_rejected"), "errors_count")

AddResults(a, b) ==
    [key \in DOMAIN a |-> a[key] + b[key]]

Logged(r, k, outcome) ==
    log' = [log EXCEPT ![r] = Append(@, [v |-> k.v, h |-> k.h, outcome |-> outcome])]

\* a rollback that also undoes what the run committed in its earlier batches
BatchFailUndoesRun(r) ==
    /\ pending' = [pending EXCEPT ![r] = {}]
    /\ flushed' = [flushed EXCEPT ![r] = {}]
    /\ inactive' = [inactive EXCEPT ![r] = FALSE]
    /\ rolled_back' = [rolled_back EXCEPT ![r] = batch_start[r]]
    /\ exc' = [exc EXCEPT ![r] = "Exception"]
    /\ pc' = [pc EXCEPT ![r] = "csv_except"]
    /\ data_rows' = {d \in data_rows : d.raw_data[1] # r}
    /\ error_logs' = {e \in error_logs : e.run_id # r}
    /\ UNCHANGED <<runs, file, total, idx, batch_start, results>>

\* process_batch, except Exception (lines 257-261): rollback and re-raise
BatchFail(r) ==
    /\ pending' = [pending EXCEPT ![r] = {}]
    /\ flushed' = [flushed EXCEPT ![r] = {}]
    /\ inactive' = [inactive EXCEPT ![r] = FALSE]
    /\ rolled_back' = [rolled_back EXCEPT ![r] = batch_start[r]]
    /\ exc' = [exc EXCEPT ![r] = "Exception"]
    /\ pc' = [pc EXCEPT ![r] = "csv_except"]
    /\ UNCHANGED <<tablevars, file, total, idx, batch_start, results>>

\* a handler that rolls the session back before it logs the error
RejectRowRollsBack(r, k, code, spent) ==
    /\ batch_results' = [batch_results EXCEPT ![r] = Rejected(@)]
    /\ Logged(r, k, "rejected")
    /\ faults' = faults + spent
    /\ UNCHANGED fault_at
    /\ data_rows' = data_rows
    /\ error_logs' = error_logs \cup {ErrorLog(r, idx[r], code)}
    /\ pending' = [pending EXCEPT ![r] = {}]
    /\ flushed' = [flushed EXCEPT ![r] = {}]
    /\ inactive' = [inactive EXCEPT ![r] = FALSE]
    /\ idx' = [idx EXCEPT ![r] = @ + 1]
    /\ UNCHANGED <<runs, pc, file, total, batch_start, results, exc, rolled_back>>

\* the row is rejected (lines 240-252): count it and log_error, which commits.
\* spent is 1 when the row itself raised an unexpected exception, which is drawn
\* from the same budget as the storage faults
RejectRow(r, k, code, spent) ==
    /\ batch_results' = [batch_results EXCEPT ![r] = Rejected(@)]
    /\ Logged(r, k, "rejected")
    /\ \/ /\ FlushResultOf(r, pending[r]) = "ok"
          /\ ~inactive[r]
          /\ faults' = faults + spent
          /\ UNCHANGED fault_at
          /\ data_rows' = data_rows \cup flushed[r] \cup pending[r]
          /\ error_logs' = error_logs \cup {ErrorLog(r, idx[r], code)}
          /\ pending' = [pending EXCEPT ![r] = {}]
          /\ flushed' = [flushed EXCEPT ![r] = {}]
          /\ idx' = [idx EXCEPT ![r] = @ + 1]
          /\ UNCHANGED <<runs, inactive, pc, file, total, batch_start, results, exc, rolled_back>>
       \/ /\ \/ /\ FlushResultOf(r, pending[r]) # "ok"
                /\ faults' = faults + spent
                /\ UNCHANGED fault_at
             \/ /\ FlushResultOf(r, pending[r]) = "ok"
                /\ faults + spent < MaxFaults
                /\ faults' = faults + spent + 1
                /\ fault_at' = [fault_at EXCEPT ![r] = pc[r]]
          /\ BatchFail(r)

\* the statement inside process_row failed (line 303 or 313): the session is left
\* inactive, the row is rejected, and log_error's commit raises on the inactive
\* session, which takes the exception out of the per-row handler
RowStatementFails(r, k) ==
    /\ batch_results' = [batch_results EXCEPT ![r] = Rejected(@)]
    /\ Logged(r, k, "rejected")
    /\ BatchFail(r)

\* a comparison that takes every existing row for another run's
SameRunNever(existing_row, r) == FALSE

\* if existing_row.run_id == run_id (line 306)
SameRun(existing_row, r) == existing_row.run_id = r

\* an update that leaves the owner as it was
UpdatedRowKeepsOwner(existing_row, r, i) ==
    [existing_row EXCEPT !.normalized_data = <<r, i>>]

\* existing_row.run_id = run_id; existing_row.normalized_data = ... (lines 310-312)
UpdatedRow(existing_row, r, i) ==
    [existing_row EXCEPT !.run_id = r, !.normalized_data = <<r, i>>]

\* process_row, lines 302-327, for a row that validated and hashed to k.h
StoreRow(r, k) ==
    LET existing == ExistingRows(r, k.h) IN
    IF QueryFlush(r) # "ok"
    THEN NoFault /\ RowStatementFails(r, k)
    ELSE IF existing # {}
    THEN LET existing_row == CHOOSE d \in existing : TRUE IN
         IF SameRun(existing_row, r)
         THEN \* duplicate in the same run
              /\ NoFault
              /\ pending' = [pending EXCEPT ![r] = PendingAfterQuery(r)]
              /\ flushed' = [flushed EXCEPT ![r] = FlushedAfterQuery(r)]
              /\ batch_results' = [batch_results EXCEPT ![r] = Bump(@, "rows_skipped")]
              /\ Logged(r, k, "skipped")
              /\ idx' = [idx EXCEPT ![r] = @ + 1]
              /\ UNCHANGED <<tablevars, inactive, pc, file, total, batch_start, results, exc,
                             rolled_back>>
         ELSE \* latest run wins; the update is committed at once
              \/ /\ FlushResultOf(r, PendingAfterQuery(r)) = "ok"
                 /\ NoFault
                 /\ data_rows' =
                       ((data_rows \ {existing_row})
                          \cup {UpdatedRow(existing_row, r, idx[r])})
                          \cup flushed[r] \cup pending[r]
                 /\ pending' = [pending EXCEPT ![r] = {}]
                 /\ flushed' = [flushed EXCEPT ![r] = {}]
                 /\ batch_results' = [batch_results EXCEPT ![r] = Bump(@, "rows_updated")]
                 /\ Logged(r, k, "updated")
                 /\ idx' = [idx EXCEPT ![r] = @ + 1]
                 /\ UNCHANGED <<runs, error_logs, inactive, pc, file, total, batch_start, results,
                                exc, rolled_back>>
              \/ /\ \/ FlushResultOf(r, PendingAfterQuery(r)) # "ok" /\ NoFault
                    \/ FlushResultOf(r, PendingAfterQuery(r)) = "ok" /\ Fault(r)
                 /\ RowStatementFails(r, k)
    ELSE \* insert new row: added to the session, flushed later
         /\ NoFault
         /\ pending' = [pending EXCEPT ![r] =
                           PendingAfterQuery(r) \cup {DataRow(k.h, r, idx[r])}]
         /\ flushed' = [flushed EXCEPT ![r] = FlushedAfterQuery(r)]
         /\ batch_results' = [batch_results EXCEPT ![r] = Bump(@, "rows_inserted")]
         /\ Logged(r, k, "inserted")
         /\ idx' = [idx EXCEPT ![r] = @ + 1]
         /\ UNCHANGED <<tablevars, inactive, pc, file, total, batch_start, results, exc,
                        rolled_back>>

\* one iteration of the loop of process_batch (lines 226-252)
ProcessRow(r) ==
    /\ pc[r] = "rows"
    /\ idx[r] < BatchEnd(r)
    /\ UNCHANGED othervars
    /\ \E k \in RowKinds :
          CASE k.v = "ok" -> StoreRow(r, k)
            [] k.v = "invalid" -> RejectRow(r, k, "VALIDATION_ERROR", 0)
            [] k.v = "error" -> faults < MaxFaults /\ RejectRow(r, k, "PROCESSING_ERROR", 1)

\* end of process_batch (lines 254-263) and the aggregation of process_csv (62-63)
CommitBatch(r) ==
    /\ pc[r] = "rows"
    /\ idx[r] = BatchEnd(r)
    /\ UNCHANGED othervars
    /\ \/ /\ FlushResultOf(r, pending[r]) = "ok"
          /\ NoFault
          /\ data_rows' = data_rows \cup flushed[r] \cup pending[r]
          /\ pending' = [pending EXCEPT ![r] = {}]
          /\ flushed' = [flushed EXCEPT ![r] = {}]
          /\ results' = [results EXCEPT ![r] = AddResults(@, batch_results[r])]
          /\ batch_results' = [batch_results EXCEPT ![r] = ZeroResults]
          /\ IF BatchEnd(r) = total[r]
             THEN /\ pc' = [pc EXCEPT ![r] = "finalize"]
                  /\ UNCHANGED batch_start
             ELSE /\ batch_start' = [batch_start EXCEPT ![r] = @ + BatchSize]
                  /\ UNCHANGED pc
          /\ UNCHANGED <<runs, error_logs, inactive, file, total, idx, exc, log, rolled_back>>
       \/ /\ \/ FlushResultOf(r, pending[r]) # "ok" /\ NoFault
             \/ FlushResultOf(r, pending[r]) = "ok" /\ Fault(r)
          /\ BatchFail(r)
          /\ UNCHANGED <<batch_results, log>>

\* ---------------------------------------------------------------- the run
\* upload_csv, lines 230-243: the run is created pending and the task is queued
Upload(r) ==
    /\ pc[r] = "idle"
    /\ UNCHANGED othervars
    /\ runs' = [runs EXCEPT ![r] = NewRun]
    /\ pc' = [pc EXCEPT ![r] = "queued"]
    /\ UNCHANGED <<data_rows, error_logs, sessionvars, loopvars, exc, log, rolled_back,
                   faults, fault_at>>

\* process_csv_file, lines 264-272: the status becomes processing.  A fault on
\* the query leaves the session usable, a fault in the commit's flush does not.
StartTask(r) ==
    /\ pc[r] = "queued"
    /\ UNCHANGED othervars
    /\ \/ /\ NoFault
          /\ runs' = [runs EXCEPT ![r] =
                         IF @ # NoRun THEN [@ EXCEPT !.status = "processing"] ELSE @]
          /\ pc' = [pc EXCEPT ![r] = "process_csv"]
          /\ UNCHANGED <<inactive, exc>>
       \/ /\ Fault(r)
          /\ exc' = [exc EXCEPT ![r] = "Exception"]
          /\ pc' = [pc EXCEPT ![r] = "file_except"]
          /\ \/ UNCHANGED inactive
             \/ runs[r] # NoRun /\ inactive' = [inactive EXCEPT ![r] = TRUE]
          /\ UNCHANGED runs
    /\ UNCHANGED <<data_rows, error_logs, pending, flushed, loopvars, log, rolled_back>>

\* validate_file_integrity (lines 91-113); the stripped content of a file has its
\* header line and one line for each data row
ValidateFileIntegrity(f) ==
    IF f.size = "empty" THEN "FileIntegrityError"
    ELSE IF f.size = "small" /\ 1 + f.rows <= 1 THEN "FileIntegrityError"
    ELSE "ok"

\* detect_delimiter (lines 139-158): first_line.count(delim) of the best delimiter
DetectDelimiter(f) ==
    LET DelimiterCount == Len(f.headers) - 1
    IN  IF DelimiterCount = 0 THEN "FileIntegrityError" ELSE "ok"

\* pd.read_csv names the columns: a repeated header h becomes h.1, h.2, ...
Columns(headers) ==
    [i \in 1..Len(headers) |->
        <<headers[i], Cardinality({j \in 1..(i - 1) : headers[j] = headers[i]})>>]

\* read_file_with_options (lines 160-196)
ReadFile(f) == IF f.parse = "corrupt" THEN "FileIntegrityError" ELSE "ok"

required_columns == {<<"email", 0>>}

\* validate_headers (lines 198-212) on list(df.columns)
ValidateHeaders(cols) ==
    IF \E i \in 1..Len(cols), j \in 1..Len(cols) : i # j /\ cols[i] = cols[j]
    THEN "FileIntegrityError"
    ELSE IF \E c \in required_columns : \A i \in 1..Len(cols) : cols[i] # c
    THEN "FileIntegrityError"
    ELSE "ok"

\* process_csv, lines 30-43: the first check that raises ends the sequence
FileChecks(f) ==
    IF ValidateFileIntegrity(f) # "ok" THEN ValidateFileIntegrity(f)
    ELSE IF DetectDelimiter(f) # "ok" THEN DetectDelimiter(f)
    ELSE IF ReadFile(f) # "ok" THEN ReadFile(f)
    ELSE ValidateHeaders(Columns(f.headers))

\* process_csv, lines 29-52: the file-level checks either raise FileIntegrityError
\* or deliver a frame of len(df) rows
OpenFile(r) ==
    /\ pc[r] = "process_csv"
    /\ UNCHANGED othervars
    /\ \E f \in Files :
          /\ file' = [file EXCEPT ![r] = f]
          /\ IF FileChecks(f) # "ok"
             THEN /\ exc' = [exc EXCEPT ![r] = FileChecks(f)]
                  /\ pc' = [pc EXCEPT ![r] = "csv_except"]
                  /\ UNCHANGED <<total, results>>
             ELSE /\ total' = [total EXCEPT ![r] = f.rows]
                  /\ results' = [results EXCEPT ![r] = ZeroResults]
                  /\ pc' = [pc EXCEPT ![r] = IF f.rows = 0 THEN "finalize" ELSE "rows"]
                  /\ UNCHANGED exc
    /\ UNCHANGED <<tablevars, sessionvars, idx, batch_start, batch_results, log,
                   rolled_back, faults, fault_at>>

\* run.status = "completed" if results["rows_rejected"] == 0 else "partial_success"
FinalStatus(res) ==
    IF res.rows_rejected = 0 THEN "completed" ELSE "partial_success"

\* process_csv, lines 65-77: the run is finalized
Finalize(r) ==
    /\ pc[r] = "finalize"
    /\ UNCHANGED othervars
    /\ \/ /\ NoFault
          /\ runs' = [runs EXCEPT ![r] =
                         IF @ # NoRun
                         THEN [@ EXCEPT !.status = FinalStatus(results[r]),
                                        !.total_rows = total[r],
                                        !.rows_inserted = results[r].rows_inserted,
                                        !.rows_updated = results[r].rows_updated,
                                        !.rows_skipped = results[r].rows_skipped,
                                        !.rows_rejected = results[r].rows_rejected]
                         ELSE @]
          /\ pc' = [pc EXCEPT ![r] = "done"]
          /\ UNCHANGED <<inactive, exc>>
       \/ /\ Fault(r)
          /\ exc' = [exc EXCEPT ![r] = "Exception"]
          /\ pc' = [pc EXCEPT ![r] = "csv_except"]
          /\ \/ UNCHANGED inactive
             \/ runs[r] # NoRun /\ inactive' = [inactive EXCEPT ![r] = TRUE]
          /\ UNCHANGED runs
    /\ UNCHANGED <<data_rows, error_logs, pending, flushed, loopvars, log, rolled_back>>

\* process_csv, lines 79-89: the status becomes failed and the exception is
\* re-raised; an exception raised by the handler itself replaces it
CsvExcept(r) ==
    /\ pc[r] = "csv_except"
    /\ UNCHANGED othervars
    /\ pc' = [pc EXCEPT ![r] = "file_except"]
    /\ IF inactive[r]
       THEN \* the query raises on the inactive session
            /\ NoFault
            /\ exc' = [exc EXCEPT ![r] = "Exception"]
            /\ UNCHANGED <<runs, inactive>>
       ELSE \/ /\ NoFault
               /\ runs' = [runs EXCEPT ![r] =
                              IF @ # NoRun THEN [@ EXCEPT !.status = "failed"] ELSE @]
               /\ UNCHANGED <<inactive, exc>>
            \/ /\ Fault(r)
               /\ exc' = [exc EXCEPT ![r] = "Exception"]
               /\ \/ UNCHANGED inactive
                  \/ runs[r] # NoRun /\ inactive' = [inactive EXCEPT ![r] = TRUE]
               /\ UNCHANGED runs
    /\ UNCHANGED <<data_rows, error_logs, pending, flushed, loopvars, log, rolled_back>>

\* run.error_message = str(e), or f"Internal error: {str(e)}"
ErrorMessage(e) ==
    IF e = "FileIntegrityError" THEN "message" ELSE "Internal error: message"

\* process_csv_file, lines 279-319: the failure is recorded on the run; an
\* exception raised by the handler itself ends the task
FileExcept(r) ==
    /\ pc[r] = "file_except"
    /\ UNCHANGED othervars
    /\ pc' = [pc EXCEPT ![r] = "done"]
    /\ IF inactive[r]
       THEN \* the query raises on the inactive session
            /\ NoFault
            /\ UNCHANGED <<runs, inactive>>
       ELSE \/ /\ NoFault
               /\ runs' = [runs EXCEPT ![r] =
                              IF @ # NoRun
                              THEN [@ EXCEPT !.status = "failed",
                                             !.error_message = ErrorMessage(exc[r])]
                              ELSE @]
               /\ UNCHANGED inactive
            \/ /\ Fault(r)
               /\ \/ UNCHANGED inactive
                  \/ runs[r] # NoRun /\ inactive' = [inactive EXCEPT ![r] = TRUE]
               /\ UNCHANGED runs
    /\ UNCHANGED <<data_rows, error_logs, pending, flushed, loopvars, exc, log,
                   rolled_back>>

Next ==
    \E r \in RunIds :
        \/ Upload(r)
        \/ StartTask(r)
        \/ OpenFile(r)
        \/ ProcessRow(r)
        \/ CommitBatch(r)
        \/ Finalize(r)
        \/ CsvExcept(r)
        \/ FileExcept(r)

\* runs of several worker processes overlap
Spec == Init /\ [][Next]_vars

\* a single worker: the task never awaits anything that suspends it, so the
\* event loop runs one task to its end before it starts the next
Alone(r) ==
    LET Running(s) == pc[s] \notin {"idle", "queued", "done"}
    IN  \A s \in RunIds \ {r} : ~Running(s)

NextSeq ==
    \E r \in RunIds :
        \/ Upload(r)
        \/ Alone(r) /\ StartTask(r)
        \/ Alone(r) /\ OpenFile(r)
        \/ Alone(r) /\ ProcessRow(r)
        \/ Alone(r) /\ CommitBatch(r)
        \/ Alone(r) /\ Finalize(r)
        \/ Alone(r) /\ CsvExcept(r)
        \/ Alone(r) /\ FileExcept(r)

SpecSeq == Init /\ [][NextSeq]_vars

\* delete_run (main.py, lines 637-668), a request with a session of its own: the
\* run is looked up, its DataRows and ErrorLogs and the run itself are deleted
\* and the deletion is committed.  The statements see the committed rows; they
\* are followed when no other session holds rows it has flushed and not yet
\* committed, so that they wait for no lock.
DeleteRun(r) ==
    /\ runs[r] # NoRun
    /\ \A s \in RunIds : flushed[s] = {}
    /\ deleted < MaxDeletes
    /\ deleted' = deleted + 1
    /\ data_rows' = {d \in data_rows : d.run_id # r}
    /\ error_logs' = {e \in error_logs : e.run_id # r}
    /\ runs' = [runs EXCEPT ![r] = NoRun]
    /\ UNCHANGED <<sessionvars, loopvars, pc, exc, log, rolled_back, faults, fault_at,
                   rowvars, workervars, uploadvars, hashvars, textvars, delimitervars,
                   connectionvars>>

\* one worker process and the delete requests of the clients
NextDelete ==
    \E r \in RunIds :
        \/ Upload(r)
        \/ Alone(r) /\ StartTask(r)
        \/ Alone(r) /\ OpenFile(r)
        \/ Alone(r) /\ ProcessRow(r)
        \/ Alone(r) /\ CommitBatch(r)
        \/ Alone(r) /\ Finalize(r)
        \/ Alone(r) /\ CsvExcept(r)
        \/ Alone(r) /\ FileExcept(r)
        \/ DeleteRun(r)

SpecDelete == Init /\ [][NextDelete]_vars

\* ------------------------------------------------------------ the row chain
\* process_row, lines 265-296: auto-fix, lenient validation, AI repair,
\* normalisation.  A Python string is modelled by its text, its letter case and
\* whether white space surrounds it; the other values a cell or an AI answer
\* can hold are NaN, None, a list of two strings and a number.
Text(s, c, ws) == [t |-> "str", s |-> s, c |-> c, ws |-> ws]

NaN == [t |-> "nan"]

None == [t |-> "null"]


Num == [t |-> "num"]

\* str(value)
StrOf(v) ==
    CASE v.t = "str" -> v
      [] v.t = "nan" -> Text("nan", "lower", FALSE)
      [] v.t = "null" -> Text("None", "title", FALSE)
      [] v.t = "list" -> Text("['a@b.co', 'c@d.co']", "lower", FALSE)
      [] v.t = "num" -> Text("5", "lower", FALSE)

Strip(v) == [v EXCEPT !.ws = FALSE]

Lower(v) == [v EXCEPT !.c = "lower"]

Title(v) == [v EXCEPT !.c = "title"]

\* pd.isna(value): True for NaN and None, an array for a list
IsNa(v) == v.t \in {"nan", "null"}

IsArray(v) == v.t = "list"

\* truth value of a Python object (the empty string is false, a number is true)
Truthy(v) == ~IsNa(v) /\ (v.t = "str" => v.s # "")

null_variants == {"", "NULL", "N/A", "n/a", "null", "-", "--", "none", "NONE"}

\* re.match(r'^[a-zA-Z0-9._%+-]+@[a-zA-Z0-9.-]+\.[a-zA-Z]{2,}$', email)
EmailTexts == {"a@b.co", "x@b.com"}

EmailMatch(v) == v.s \in EmailTexts /\ ~v.ws

\* auto_fix_row, lines 335-366
AutoFixEmail(cell) ==
    LET \* the texts without @ that hold a domain pattern after a dotted prefix,
        \* and the text auto_fix_row makes of them (lines 340-354)
        DottedTexts == {"x.b.com"}
        AddAt(v) == IF v.s = "x.b.com" THEN [v EXCEPT !.s = "x@b.com"] ELSE v
        StartsWithAt(v) == v.s = "@b.co"
        email == Strip(StrOf(cell))
        added == IF email.s # "" /\ email.s \in DottedTexts THEN AddAt(email) ELSE email
        cut == IF StartsWithAt(added) THEN Text("", "lower", FALSE) ELSE added
    IN  IF cut.s # "" THEN Strip(Lower(cut)) ELSE cut

\* auto_fix_row, lines 390-403: a name taken from the prefix of the email
NameFromEmail(email) == Text(email.s, "title", FALSE)

\* auto_fix_row, lines 405-413: an email found in another column
EmailElsewhere(d, cols) ==
    {i \in 1..Len(cols) :
        /\ cols[i] # "email" /\ Truthy(d[cols[i]])
        /\ EmailMatch(Lower(Strip(StrOf(d[cols[i]]))))}

\* auto_fix_row (lines 329-419) on a row whose columns are cols, in that order;
\* the rows have the columns email, name and address
AutoFixRow(cells, cols) ==
    LET original == Strip(StrOf(cells["email"]))
        d1 == [cells EXCEPT !["email"] = AutoFixEmail(cells["email"])]
        name == Strip(StrOf(d1["name"]))
        extract == (name.s = "" \/ name.s \in null_variants) /\ d1["email"].s \in EmailTexts
        d2 == IF extract THEN [d1 EXCEPT !["name"] = NameFromEmail(d1["email"])] ELSE d1
        found == EmailElsewhere(d2, cols)
        copy == (d2["email"].s = "" \/ d2["email"].s \in null_variants) /\ found # {}
    IN  [data |-> IF copy
                  THEN [d2 EXCEPT !["email"] =
                           Lower(Strip(StrOf(d2[cols[CHOOSE i \in found :
                                                        \A j \in found : i <= j]])))]
                  ELSE d2,
         fixes |-> (IF d1["email"].s # "" /\ d1["email"] # Strip(Lower(original))
                    THEN {"Fixed email: added @ symbol", "Normalized email to lowercase"}
                    ELSE {})
                   \cup (IF extract THEN {"Extracted name from email"} ELSE {})
                   \cup (IF copy THEN {"Found email in column"} ELSE {})]

\* the all(...) of line 426 looks at the columns in order and stops at the first
\* one that is not blank; the truth value of pd.isna(a list) raises ValueError
Blank(v) == IsNa(v) \/ Strip(StrOf(v)).s \in null_variants

Decisive(d, cols) == {i \in 1..Len(cols) : IsArray(d[cols[i]]) \/ ~Blank(d[cols[i]])}

\* validate_row_lenient (lines 421-450): the exception it raises, or the row as
\* it leaves it
ValidateRowLenient(d, cols) ==
    LET email == Strip(StrOf(d["email"]))
        name == Strip(StrOf(d["name"]))
    IN  IF Decisive(d, cols) = {}
        THEN [exc |-> "ValidationError", msg |-> <<"Row is completely empty">>]
        ELSE IF IsArray(d[cols[CHOOSE i \in Decisive(d, cols) :
                                   \A j \in Decisive(d, cols) : i <= j]])
        THEN [exc |-> "ValueError", msg |-> <<"The truth value of an array is ambiguous">>]
        ELSE IF email.s = "" \/ email.s \in null_variants
        THEN [exc |-> "ValidationError", msg |-> <<"Missing required field: email">>]
        ELSE IF ~EmailMatch(email)
        THEN [exc |-> "ValidationError", msg |-> <<"Invalid email format", email.s>>]
        ELSE [exc |-> "none",
              data |-> [d EXCEPT !["email"] = Lower(email),
                                 !["name"] = IF name.s # "" /\ name.s \notin null_variants
                                             THEN name ELSE None]]

\* what the external call of fix_row (lines 91-111) can come to
Responses ==
    {[kind |-> "exception"], [kind |-> "timeout"], [kind |-> "invalid_json"],
     [kind |-> "not_object"]}
    \cup {[kind |-> "object", data |-> m] :
             m \in {<<>>,
                    [k \in {"email"} |-> Text("a@b.co", "lower", FALSE)],
                    [k \in {"email"} |-> Text("worse", "lower", FALSE)],
                    [k \in {"email"} |-> Text("", "lower", FALSE)],
                    [k \in {"email"} |-> None],
                    [k \in {"email"} |-> [t |-> "list"]],
                    [k \in {"email", "address"} |->
                        IF k = "email" THEN Text("a@b.co", "lower", FALSE) ELSE Num],
                    [k \in {"contact"} |-> Text("a@b.co", "lower", FALSE)]}}

\* the keys fix_row replaces (lines 114-120)
FixedKeys(row_data, fixed) ==
    {k \in DOMAIN fixed \cap DOMAIN row_data :
        StrOf(row_data[k]) # StrOf(fixed[k]) /\ StrOf(fixed[k]).s # ""}

\* a fix_row that lets the failure of the external call out
FixRowRaises(row_data, resp) ==
    IF resp.kind # "object"
    THEN [exc |-> "Exception", data |-> row_data, fixes |-> {}]
    ELSE [exc |-> "none",
          data |-> [k \in DOMAIN row_data |->
                       IF k \in FixedKeys(row_data, resp.data)
                       THEN resp.data[k] ELSE row_data[k]],
          fixes |-> {<<"AI fixed", k>> : k \in FixedKeys(row_data, resp.data)}]

\* fix_row (lines 58-132) after the external call: every failure returns the row
\* as it was with no fix
FixRow(row_data, resp) ==
    IF resp.kind # "object"
    THEN [exc |-> "none", data |-> row_data, fixes |-> {}]
    ELSE [exc |-> "none",
          data |-> [k \in DOMAIN row_data |->
                       IF k \in FixedKeys(row_data, resp.data)
                       THEN resp.data[k] ELSE row_data[k]],
          fixes |-> {<<"AI fixed", k>> : k \in FixedKeys(row_data, resp.data)}]

\* normalize_data (lines 594-617, the definition the class ends up with): the
\* exception it raises, or the normalized mapping
NormalizeValue(key, v) ==
    IF IsNa(v) THEN None
    ELSE IF v.t = "str"
    THEN IF key \in {"name", "city"} THEN Title(Strip(v)) ELSE Lower(Strip(v))
    ELSE v

ZipCode(v) ==
    LET z == StrOf(v) IN
    CASE z.s = "123" -> [z EXCEPT !.s = "00123"]
      [] z.s = "12345-678" -> [z EXCEPT !.s = "12345"]
      [] OTHER -> z

NormalizeData(d) ==
    LET n1 == [k \in DOMAIN d |-> NormalizeValue(k, d[k])]
        named == "name" \in DOMAIN n1 /\ Truthy(n1["name"])
        keys == DOMAIN d \cup (IF named THEN {"first_name", "last_name"} ELSE {})
    IN  IF \E k \in DOMAIN d : IsArray(d[k])
        THEN [exc |-> "ValueError"]
        ELSE IF "address" \in DOMAIN n1 /\ Truthy(n1["address"]) /\ n1["address"].t # "str"
        THEN [exc |-> "TypeError"]
        ELSE [exc |-> "none",
              data |-> [k \in keys |->
                          CASE k = "first_name" /\ named -> [t |-> "first", of |-> n1["name"]]
                            [] k = "last_name" /\ named -> [t |-> "rest", of |-> n1["name"]]
                            [] k = "address" /\ Truthy(n1[k]) -> Strip(n1[k])
                            [] k = "zip" /\ Truthy(n1[k]) -> ZipCode(n1[k])
                            [] OTHER -> n1[k]]]

ColumnOrders == {<<"email", "name", "address">>, <<"name", "email", "address">>}

\* the rows of the cells read_csv delivers (dtype=str, the null variants read
\* as NaN)
Rows ==
    LET EmailCells ==
            {NaN} \cup {Text(s, c, ws) : s \in {"a@b.co", "bad", "x.b.com", "@b.co"},
                                         c \in {"lower", "upper"}, ws \in BOOLEAN}
        NameCells == {NaN, Text("ann lee", "lower", FALSE), Text("a@b.co", "lower", FALSE)}
        AddressCells == {NaN, Text("1 main st", "lower", TRUE)}
    IN
    {[k \in {"email", "name", "address"} |->
         CASE k = "email" -> e [] k = "name" -> n [] k = "address" -> a] :
        e \in EmailCells, n \in NameCells, a \in AddressCells}

InitRow ==
    /\ InitPipeline
    /\ IdleWorker
    /\ IdleUpload
    /\ IdleHash
    /\ IdleText
    /\ IdleDelimiter
    /\ IdleConnections
    /\ IdleDelete
    /\ columns \in ColumnOrders
    /\ row \in Rows
    /\ enabled \in BOOLEAN
    /\ rpc = "auto_fix"
    /\ fixed_data = <<>>
    /\ fixes_applied = {}
    /\ first_error = <<>>
    /\ response = NoResponse
    /\ trace = <<>>
    /\ row_outcome = NoOutcome

Stage(stage, result) == [stage |-> stage, result |-> result]

\* process_batch, lines 240-252: the ErrorEntry of a row that raised; raw_data
\* is row.to_dict() taken when the entry is written
RowRejected(e) ==
    [result |-> "rejected",
     error_code |-> IF e.exc = "ValidationError" THEN "VALIDATION_ERROR"
                    ELSE "PROCESSING_ERROR",
     error_message |-> e.msg,
     raw_data |-> row]

\* a process_row that asks the collaborator whether it is enabled or not
AiAttemptedAlways(en) == TRUE

\* if ai_fixer.enabled (line 275)
AiAttempted(en) == en

\* an auto_fix_row that works on the row it is given, not on a copy
RowAutoFixInPlace ==
    /\ rpc = "auto_fix"
    /\ fixed_data' = AutoFixRow(row, columns).data
    /\ row' = AutoFixRow(row, columns).data
    /\ fixes_applied' = AutoFixRow(row, columns).fixes
    /\ trace' = Append(trace, Stage("auto_fix", "none"))
    /\ rpc' = "validate"
    /\ UNCHANGED <<outside_row, columns, enabled, first_error, response, row_outcome>>

\* line 268; auto_fix_row works on row.to_dict(), a new dictionary (line 331)
RowAutoFix ==
    /\ rpc = "auto_fix"
    /\ fixed_data' = AutoFixRow(row, columns).data
    /\ fixes_applied' = AutoFixRow(row, columns).fixes
    /\ trace' = Append(trace, Stage("auto_fix", "none"))
    /\ rpc' = "validate"
    /\ UNCHANGED <<outside_row, columns, row, enabled, first_error, response, row_outcome>>

\* lines 271-275 and 292-293
RowValidate ==
    /\ rpc = "validate"
    /\ LET v == ValidateRowLenient(fixed_data, columns) IN
          /\ trace' = Append(trace, Stage("validate", v.exc))
          /\ IF v.exc = "none"
             THEN /\ fixed_data' = v.data
                  /\ rpc' = "normalize"
                  /\ UNCHANGED <<first_error, row_outcome>>
             ELSE /\ first_error' = v.msg
                  /\ UNCHANGED fixed_data
                  /\ IF v.exc = "ValidationError" /\ AiAttempted(enabled)
                     THEN rpc' = "ai_fix" /\ UNCHANGED row_outcome
                     ELSE rpc' = "done" /\ row_outcome' = RowRejected(v)
    /\ UNCHANGED <<outside_row, columns, row, enabled, fixes_applied, response>>

\* lines 276-282: fix_row waits in the rate limiter, calls the collaborator once
\* and changes the dictionary it was given
RowAiFix ==
    /\ rpc = "ai_fix"
    /\ \E resp \in Responses :
          LET fixed == FixRow(fixed_data, resp) IN
          /\ response' = resp
          /\ trace' = trace \o <<Stage("rate_limit", "none"), Stage("ai_call", resp.kind)>>
          /\ IF fixed.exc = "none"
             THEN /\ fixed_data' = fixed.data
                  /\ fixes_applied' = fixes_applied \cup fixed.fixes
                  /\ rpc' = "revalidate"
                  /\ UNCHANGED row_outcome
             ELSE /\ rpc' = "done"
                  /\ row_outcome' = RowRejected([exc |-> fixed.exc, msg |-> <<resp.kind>>])
                  /\ UNCHANGED <<fixed_data, fixes_applied>>
    /\ UNCHANGED <<outside_row, columns, row, enabled, first_error>>

\* lines 284-291: the second validation; its ValidationError is replaced by e
RowRevalidate ==
    /\ rpc = "revalidate"
    /\ LET v == ValidateRowLenient(fixed_data, columns) IN
          /\ trace' = Append(trace, Stage("validate", v.exc))
          /\ IF v.exc = "none"
             THEN /\ fixed_data' = v.data
                  /\ rpc' = "normalize"
                  /\ UNCHANGED row_outcome
             ELSE /\ rpc' = "done"
                  /\ UNCHANGED fixed_data
                  /\ row_outcome' =
                        IF v.exc = "ValidationError"
                        THEN RowRejected([exc |-> "ValidationError", msg |-> first_error])
                        ELSE RowRejected(v)
    /\ UNCHANGED <<outside_row, columns, row, enabled, fixes_applied, first_error, response>>

\* lines 295-323: the row is normalized and handed to the store, with
\* raw_data=json.dumps(row.to_dict())
RowNormalize ==
    /\ rpc = "normalize"
    /\ LET n == NormalizeData(fixed_data) IN
          /\ trace' = Append(trace, Stage("normalize", n.exc))
          /\ row_outcome' =
                IF n.exc = "none"
                THEN [result |-> "stored", normalized_data |-> n.data,
                      fixes |-> fixes_applied, raw_data |-> row]
                ELSE RowRejected([exc |-> n.exc, msg |-> <<n.exc>>])
    /\ rpc' = "done"
    /\ UNCHANGED <<outside_row, columns, row, enabled, fixed_data, fixes_applied,
                   first_error, response>>

NextRow ==
    \/ RowAutoFix
    \/ RowValidate
    \/ RowAiFix
    \/ RowRevalidate
    \/ RowNormalize

SpecRow == InitRow /\ [][NextRow]_vars

\* ------------------------------------------------------ the worker process
\* One worker: the handlers and the background tasks of main.py are coroutines of
\* one event loop.  process_csv_file awaits only coroutines that never suspend
\* and _rate_limit sleeps with time.sleep, so a task holds the loop from its
\* start to its end.  Each row that reaches fix_row goes through _rate_limit.
InitWorker ==
    /\ InitPipeline
    /\ IdleRow
    /\ IdleUpload
    /\ IdleHash
    /\ IdleText
    /\ IdleDelimiter
    /\ IdleConnections
    /\ IdleDelete
    /\ now = 0
    /\ request_count = 0
    /\ minute_start = 0
    /\ admitted = <<>>
    /\ loop = 0
    /\ wpc = [r \in RunIds |-> "idle"]
    /\ calls_left \in [RunIds -> 0..MaxCalls]
    /\ wake_at = [r \in RunIds |-> 0]

\* time passes
Tick ==
    /\ now < MaxTime
    /\ now' = now + 1
    /\ UNCHANGED <<outside_worker, request_count, minute_start, admitted, loop, wpc,
                   calls_left, wake_at>>

\* upload_csv (main.py:168-255) runs in the loop and queues the task
WorkerUpload(r) ==
    /\ wpc[r] = "idle"
    /\ loop = 0
    /\ wpc' = [wpc EXCEPT ![r] = "queued"]
    /\ UNCHANGED <<outside_worker, now, request_count, minute_start, admitted, loop,
                   calls_left, wake_at>>

\* the loop starts the task (main.py:243, 257)
WorkerStart(r) ==
    /\ wpc[r] = "queued"
    /\ loop = 0
    /\ loop' = r
    /\ wpc' = [wpc EXCEPT ![r] = "rows"]
    /\ UNCHANGED <<outside_worker, now, request_count, minute_start, admitted, calls_left,
                   wake_at>>

\* _rate_limit (lines 38-56) up to its time.sleep, or to its end when it does
\* not sleep; lines 40-45: the counter is reset when the minute is over
RateLimit(r) ==
    LET CountNow == IF now - minute_start >= Minute THEN 0 ELSE request_count
        StartNow == IF now - minute_start >= Minute THEN now ELSE minute_start
        \* sleep_time of line 49
        SleepTime == Minute - (now - StartNow)
    IN
    /\ wpc[r] = "rows"
    /\ loop = r
    /\ calls_left[r] > 0
    /\ minute_start' = StartNow
    /\ IF CountNow >= requests_per_minute /\ SleepTime > 0
       THEN /\ wpc' = [wpc EXCEPT ![r] = "sleeping"]
            /\ wake_at' = [wake_at EXCEPT ![r] = now + SleepTime]
            /\ request_count' = CountNow
            /\ UNCHANGED <<admitted, calls_left>>
       ELSE /\ request_count' = CountNow + 1
            /\ admitted' = Append(admitted, now)
            /\ calls_left' = [calls_left EXCEPT ![r] = @ - 1]
            /\ UNCHANGED <<wpc, wake_at>>
    /\ UNCHANGED <<outside_worker, now, loop>>

\* time.sleep has returned (lines 53-56)
Wake(r) ==
    /\ wpc[r] = "sleeping"
    /\ loop = r
    /\ now >= wake_at[r]
    /\ request_count' = 0 + 1
    /\ minute_start' = now
    /\ admitted' = Append(admitted, now)
    /\ calls_left' = [calls_left EXCEPT ![r] = @ - 1]
    /\ wpc' = [wpc EXCEPT ![r] = "rows"]
    /\ UNCHANGED <<outside_worker, now, loop, wake_at>>

\* the task ends and the loop is free again (main.py:306-319)
WorkerFinish(r) ==
    /\ wpc[r] = "rows"
    /\ loop = r
    /\ calls_left[r] = 0
    /\ wpc' = [wpc EXCEPT ![r] = "done"]
    /\ loop' = 0
    /\ UNCHANGED <<outside_worker, now, request_count, minute_start, admitted, calls_left,
                   wake_at>>

NextWorker ==
    \/ Tick
    \/ \E r \in RunIds :
          \/ WorkerUpload(r)
          \/ WorkerStart(r)
          \/ RateLimit(r)
          \/ Wake(r)
          \/ WorkerFinish(r)

SpecWorker == InitWorker /\ [][NextWorker]_vars

\* ------------------------------------------------------------ the uploads
\* upload_csv (main.py:168-255) for requests served by several worker processes:
\* the query for the content hash and the commit of the new run are two
\* statements of a session, and statements of other requests come between them.
Contents == 1..NumContents

Filenames == {"a.csv", "b.csv", "c.txt"}

\* file.filename.endswith('.csv') or ... (lines 174-175)
Allowed(filename) == filename \in {"a.csv", "b.csv"}

InitUpload == Init

\* lines 174-199: the name is checked, the file is written and hashed
UploadReceive(r) ==
    /\ upc[r] = "idle"
    /\ \E n \in Filenames, h \in Contents, f \in BOOLEAN :
          /\ upload' = [upload EXCEPT ![r] = [filename |-> n, file_hash |-> h, force |-> f]]
          /\ upc' = [upc EXCEPT ![r] = IF Allowed(n) THEN "received" ELSE "refused"]
    /\ UNCHANGED <<runs, pc, outside_upload, existing_run, file_hash>>

\* db.query(IngestRun).filter(IngestRun.file_hash == file_hash_hex).first()
RunsWithHash(h) == {s \in RunIds : runs[s] # NoRun /\ file_hash[s] = h}

\* lines 201-205
UploadQuery(r) ==
    /\ upc[r] = "received"
    /\ existing_run' = [existing_run EXCEPT ![r] =
          IF RunsWithHash(upload[r].file_hash) = {} THEN 0
          ELSE CHOOSE s \in RunsWithHash(upload[r].file_hash) : TRUE]
    /\ upc' = [upc EXCEPT ![r] = "queried"]
    /\ UNCHANGED <<runs, pc, outside_upload, upload, file_hash>>

\* if existing_run and not force (line 207)
IsDuplicate(existing, force) == existing # 0 /\ ~force

\* lines 207-243: the duplicate is answered with the existing run; otherwise the
\* run is created pending and its task is queued
UploadCommit(r) ==
    /\ upc[r] = "queried"
    /\ IF IsDuplicate(existing_run[r], upload[r].force)
       THEN /\ upc' = [upc EXCEPT ![r] = "skipped"]
            /\ UNCHANGED <<runs, pc, file_hash>>
       ELSE /\ runs' = [runs EXCEPT ![r] = NewRun]
            /\ file_hash' = [file_hash EXCEPT ![r] = upload[r].file_hash]
            /\ pc' = [pc EXCEPT ![r] = "queued"]
            /\ upc' = [upc EXCEPT ![r] = "created"]
    /\ UNCHANGED <<outside_upload, upload, existing_run>>

NextUpload ==
    \E r \in RunIds :
        \/ UploadReceive(r)
        \/ UploadQuery(r)
        \/ UploadCommit(r)

SpecUpload == InitUpload /\ [][NextUpload]_vars

\* --------------------------------------------------------- the fingerprint
\* normalize_data and generate_row_hash (lines 594-632) on a validated row, and
\* the normalized_data column of its record (lines 299-323).  A dict is the
\* sequence of its <<key, value>> pairs in insertion order.
Keys(items) == {items[i][1] : i \in DOMAIN items}

\* data.get(key, default)
Get(items, key, default) ==
    IF key \in Keys(items)
    THEN items[CHOOSE i \in DOMAIN items : items[i][1] = key][2]
    ELSE default

\* normalize_data fills normalized in the order of data.items() and puts
\* first_name and last_name behind when they are new keys
NormalizeItems(items) ==
    LET AsMapping == [k \in Keys(items) |-> Get(items, k, None)]
        n == NormalizeData(AsMapping)
        added == SelectSeq(<<"first_name", "last_name">>,
                           LAMBDA k : k \in DOMAIN n.data \ Keys(items))
    IN  IF n.exc # "none" THEN n
        ELSE [exc |-> "none",
              items |-> [i \in DOMAIN items |-> <<items[i][1], n.data[items[i][1]]>>]
                        \o [i \in DOMAIN added |-> <<added[i], n.data[added[i]]>>]]

\* the keys of generate_row_hash in the order of its literal
HashKeys == <<"email", "name", "phone", "address", "city", "state", "zip", "country">>

EmptyString == Text("", "lower", FALSE)

\* sort_keys=True: the keys the rows can have, in the order of Python's string
\* comparison
SortKeys(items) ==
    LET Alphabetical ==
            <<"_fixes_applied", "address", "city", "country", "email", "first_name",
              "last_name", "name", "notes", "phone", "state", "zip">>
        ks == SelectSeq(Alphabetical, LAMBDA k : k \in Keys(items))
    IN  [i \in DOMAIN ks |-> <<ks[i], Get(items, ks[i], None)>>]

\* the list of messages under _fixes_applied
FixList == [t |-> "strings"]

\* json.dumps(mapping) and json.dumps(mapping, sort_keys=True, separators=...),
\* with the JSON text json.dumps writes for a value
JsonDumps(items, sort_keys) ==
    LET EncodeJson(v) ==
            CASE v.t \in {"str", "first", "rest"} -> [j |-> "string", chars |-> v]
              [] v.t = "null" -> [j |-> "null"]
              [] v.t = "nan" -> [j |-> "NaN"]
              [] v.t = "num" -> [j |-> "number"]
              [] v.t \in {"list", "strings"} -> [j |-> "array", of |-> v.t]
        ordered == IF sort_keys THEN SortKeys(items) ELSE items
    IN  [i \in DOMAIN ordered |-> <<ordered[i][1], EncodeJson(ordered[i][2])>>]

\* json.loads(text), with the value json.loads reads from the text of a value
JsonLoads(text) ==
    LET DecodeJson(token) ==
            CASE token.j = "string" -> token.chars
              [] token.j = "null" -> None
              [] token.j = "NaN" -> NaN
              [] token.j = "number" -> Num
              [] token.j = "array" -> [t |-> token.of]
    IN  [i \in DOMAIN text |-> <<text[i][1], DecodeJson(text[i][2])>>]

\* hashlib.sha256(...).hexdigest(), taken to be free of collisions
Sha256(text) == [sha256 |-> text]

\* a fingerprint that also reads the notes
GenerateRowHashWithNotes(data) ==
    LET keys == Append(HashKeys, "notes")
        hash_data == [i \in DOMAIN keys |-> <<keys[i], Get(data, keys[i], EmptyString)>>]
    IN  Sha256(JsonDumps(hash_data, TRUE))

\* a fingerprint over the whole mapping as it is laid out
GenerateRowHashAsLaidOut(data) == Sha256(JsonDumps(data, FALSE))

\* generate_row_hash (lines 619-632)
GenerateRowHash(data) ==
    LET hash_data == [i \in DOMAIN HashKeys |->
                         <<HashKeys[i], Get(data, HashKeys[i], EmptyString)>>]
    IN  Sha256(JsonDumps(hash_data, TRUE))

\* the values validate_row_lenient and the AI repair leave under a key
ValuesOf(key) ==
    CASE key = "email" -> {Text("a@b.co", "lower", FALSE)}
      [] key = "name" -> {None, Text("ann lee", "lower", FALSE)}
      [] key = "address" -> {Text("1 main st", "lower", TRUE), Num}
      [] key = "city" -> {NaN, Text("york", "lower", TRUE)}
      [] key = "notes" -> {NaN, Text("vip", "upper", FALSE)}

RowKeys == {"email", "name", "address", "city", "notes"}

\* the validated rows of up to MaxKeys columns, in every order of the columns
ValidatedRows ==
    LET Pairs == {<<k, v>> : k \in RowKeys, v \in UNION {ValuesOf(key) : key \in RowKeys}}
    IN
    UNION {{m \in [1..n -> {p \in Pairs : p[2] \in ValuesOf(p[1])}] :
              /\ \A i \in 1..n, j \in 1..n : i # j => m[i][1] # m[j][1]
              /\ \E i \in 1..n : m[i][1] = "email"} : n \in 1..MaxKeys}

\* the same mapping with its keys in another order
Reordered(items) ==
    {[i \in DOMAIN items |-> items[f[i]]] :
        f \in {g \in [DOMAIN items -> DOMAIN items] :
                  \A i \in DOMAIN items, j \in DOMAIN items : i # j => g[i] # g[j]}}

\* the same mapping without one key
Without(items, key) == SelectSeq(items, LAMBDA p : p[1] # key)

Lacking(items) == {Without(items, k) : k \in Keys(items) \ {"email"}}

InitHash ==
    /\ InitPipeline
    /\ IdleRow
    /\ IdleWorker
    /\ IdleUpload
    /\ IdleText
    /\ IdleDelimiter
    /\ IdleConnections
    /\ IdleDelete
    /\ hpc = "validated"
    /\ validated \in ValidatedRows
    /\ variant \in Reordered(validated) \cup Lacking(validated)
    /\ normalized = <<>>
    /\ hashes = <<>>
    /\ stored_text = <<>>
    /\ reloaded_hash = <<>>

\* process_row, lines 295-296, for the two rows
HashRows ==
    /\ hpc = "validated"
    /\ LET n == [row |-> NormalizeItems(validated), variant |-> NormalizeItems(variant)]
       IN  /\ normalized' = n
           /\ IF n.row.exc # "none" \/ n.variant.exc # "none"
              THEN /\ hpc' = "failed"
                   /\ UNCHANGED hashes
              ELSE /\ hpc' = "hashed"
                   /\ hashes' = [row |-> GenerateRowHash(n.row.items),
                                 variant |-> GenerateRowHash(n.variant.items)]
    /\ UNCHANGED <<validated, variant, stored_text, reloaded_hash, outside_hash>>

\* process_row, lines 299-323: the normalized mapping, with the fixes when there
\* are some, is written as JSON text
StoreText ==
    /\ hpc = "hashed"
    /\ \E fixes \in BOOLEAN :
          stored_text' = JsonDumps(IF fixes
                                   THEN Append(normalized.row.items,
                                               <<"_fixes_applied", FixList>>)
                                   ELSE normalized.row.items, FALSE)
    /\ hpc' = "stored"
    /\ UNCHANGED <<validated, variant, normalized, hashes, reloaded_hash, outside_hash>>

\* the fingerprint of the stored mapping read back
ReloadHash ==
    /\ hpc = "stored"
    /\ reloaded_hash' = GenerateRowHash(JsonLoads(stored_text))
    /\ hpc' = "reloaded"
    /\ UNCHANGED <<validated, variant, normalized, hashes, stored_text, outside_hash>>

\* process_row, lines 302-327, for the second row, which comes in the same run
\* after the first is stored: the row found under its fingerprint is the first
\* one, and a row of the same run is left as it is
StoreVariant ==
    /\ hpc = "reloaded"
    /\ hpc' = IF hashes.variant = hashes.row THEN "skipped" ELSE "inserted"
    /\ UNCHANGED <<validated, variant, normalized, hashes, stored_text, reloaded_hash,
                   outside_hash>>

NextHash ==
    \/ HashRows
    \/ StoreText
    \/ ReloadHash
    \/ StoreVariant

SpecHash == InitHash /\ [][NextHash]_vars

\* -------------------------------------------------------------- the texts
\* auto_fix_row, validate_row_lenient and validate_row on the cells the reader
\* delivers.  A Python string is the sequence of its characters; a cell is a
\* string or NaN.
UpperLetters == <<"A", "B", "C", "D", "E", "F", "G", "H", "I", "J", "K", "L", "M", "N", "O", "P", "Q", "R", "S", "T", "U", "V", "W", "X", "Y", "Z">>

LowerLetters == <<"a", "b", "c", "d", "e", "f", "g", "h", "i", "j", "k", "l", "m", "n", "o", "p", "q", "r", "s", "t", "u", "v", "w", "x", "y", "z">>

\* U+212A KELVIN SIGN, the one character outside ASCII that str.lower() takes
\* to an ASCII letter
KelvinSign == "U+212A"

Letters == {UpperLetters[i] : i \in DOMAIN UpperLetters}
               \cup {LowerLetters[i] : i \in DOMAIN LowerLetters}

Digits == {"0", "1", "2", "3", "4", "5", "6", "7", "8", "9"}

Whitespace == {" ", "\t"}

Least(S) == CHOOSE x \in S : \A y \in S : x <= y

Greatest(S) == CHOOSE x \in S : \A y \in S : x >= y

TextValue(chars) == [t |-> "text", chars |-> chars]

\* str(value)
str(v) ==
    CASE v.t = "text" -> v.chars
      [] v.t = "nan" -> <<"n", "a", "n">>
      [] v.t = "null" -> <<"N", "o", "n", "e">>

\* bool(value): NaN is true, the empty string and None are false
bool(v) == IF v.t = "text" THEN v.chars # <<>> ELSE v.t = "nan"

\* str.strip()
strip(s) ==
    LET kept == {i \in DOMAIN s : s[i] \notin Whitespace}
    IN  IF kept = {} THEN <<>> ELSE SubSeq(s, Least(kept), Greatest(kept))

LowerChar(c) ==
    IF \E i \in DOMAIN UpperLetters : UpperLetters[i] = c
    THEN LowerLetters[CHOOSE i \in DOMAIN UpperLetters : UpperLetters[i] = c]
    ELSE IF c = KelvinSign THEN "k" ELSE c

UpperChar(c) ==
    IF \E i \in DOMAIN LowerLetters : LowerLetters[i] = c
    THEN UpperLetters[CHOOSE i \in DOMAIN LowerLetters : LowerLetters[i] = c]
    ELSE c

\* str.lower()
lower(s) == [i \in 1..Len(s) |-> LowerChar(s[i])]

\* str.capitalize()
capitalize(s) ==
    [i \in 1..Len(s) |-> IF i = 1 THEN UpperChar(s[i]) ELSE LowerChar(s[i])]

\* str.title(): a letter is put in upper case when no letter stands before it
title(s) ==
    [i \in 1..Len(s) |->
        IF i = 1 \/ (s[i - 1] \notin Letters /\ s[i - 1] # KelvinSign)
        THEN UpperChar(s[i]) ELSE LowerChar(s[i])]

\* the places where pattern stands in s; pattern in s; s.rfind(pattern)
Occurrences(s, pattern) ==
    {i \in 1..(Len(s) - Len(pattern) + 1) : SubSeq(s, i, i + Len(pattern) - 1) = pattern}

contains(s, pattern) == Occurrences(s, pattern) # {}

rfind(s, pattern) == Greatest(Occurrences(s, pattern))

\* s.startswith(prefix)
startswith(s, prefix) == Len(s) >= Len(prefix) /\ SubSeq(s, 1, Len(prefix)) = prefix

\* re.split on the characters of separators, and s.split(separator)
RECURSIVE split(_, _)
split(s, separators) ==
    LET cuts == {i \in DOMAIN s : s[i] \in separators}
    IN  IF cuts = {} THEN <<s>>
        ELSE <<SubSeq(s, 1, Least(cuts) - 1)>>
                 \o split(SubSeq(s, Least(cuts) + 1, Len(s)), separators)

\* separator.join(parts)
RECURSIVE join(_, _)
join(parts, separator) ==
    IF parts = <<>> THEN <<>>
    ELSE IF Len(parts) = 1 THEN parts[1]
    ELSE parts[1] \o separator \o join(Tail(parts), separator)

\* re.sub of every character outside kept by the empty string
sub(s, kept) == SelectSeq(s, LAMBDA c : c \in kept)

\* re.match(r'^[a-zA-Z0-9._%+-]+@[a-zA-Z0-9.-]+\.[a-zA-Z]{2,}$', s) on a string
\* with no line break
EmailRegex(s) ==
    \E at \in DOMAIN s, dot \in DOMAIN s :
        /\ s[at] = "@" /\ at >= 2
        /\ \A i \in 1..(at - 1) : s[i] \in Letters \cup Digits \cup {".", "_", "%", "+", "-"}
        /\ s[dot] = "." /\ dot >= at + 2
        /\ \A i \in (at + 1)..(dot - 1) : s[i] \in Letters \cup Digits \cup {".", "-"}
        /\ Len(s) >= dot + 2
        /\ \A i \in (dot + 1)..Len(s) : s[i] \in Letters

\* self.null_variants (line 26) as strings of characters
NullVariants ==
    {<<>>, <<"N", "U", "L", "L">>, <<"N", "/", "A">>, <<"n", "/", "a">>, <<"n", "u", "l", "l">>, <<"-">>, <<"-", "-">>, <<"n", "o", "n", "e">>, <<"N", "O", "N", "E">>}

\* row_dict[key] = value
Put(items, key, value) ==
    IF key \in Keys(items)
    THEN [i \in DOMAIN items |-> IF items[i][1] = key THEN <<key, value>> ELSE items[i]]
    ELSE Append(items, <<key, value>>)

\* a fix description: its text and the two values it quotes
Fix(text, a, b) == <<text, a, b>>

NonEmpty(parts) == SelectSeq(parts, LAMBDA p : p # <<>>)

\* auto_fix_row (lines 329-419) on row.to_dict(): the email, the phone, the
\* name, and an email in another column, each on the row the one before left
auto_fix_row(row_dict) ==
    LET \* auto_fix_row, lines 335-366: the email
        FixEmail(d) ==
            IF "email" \notin Keys(d) THEN [data |-> d, fixes |-> <<>>]
            ELSE
            LET \* s.rsplit('.', 1)
                rsplit(s) ==
                    IF contains(s, <<".">>)
                    THEN <<SubSeq(s, 1, rfind(s, <<".">>) - 1), SubSeq(s, rfind(s, <<".">>) + 1, Len(s))>>
                    ELSE <<s>>
                domain_patterns ==
                    <<<<".", "c", "o", "m">>, <<".", "i", "o">>, <<".", "c", "o">>, <<".", "n", "e", "t">>, <<".", "o", "r", "g">>, <<".", "b", "i", "z">>>>
                original_email == strip(str(Get(d, "email", None)))
                usable == {i \in DOMAIN domain_patterns :
                              /\ contains(original_email, domain_patterns[i])
                              /\ Len(rsplit(SubSeq(original_email, 1,
                                        rfind(original_email, domain_patterns[i]) - 1))) = 2}
                add == original_email # <<>> /\ ~contains(original_email, <<"@">>) /\ usable # {}
                at == rfind(original_email, domain_patterns[Least(usable)])
                parts == rsplit(SubSeq(original_email, 1, at - 1))
                with_at == IF add
                           THEN parts[1] \o <<"@">> \o parts[2]
                                   \o SubSeq(original_email, at, Len(original_email))
                           ELSE original_email
                \* lines 356-366 on the email of lines 340-354
                Lowered(email_0) ==
                    LET kept == IF startswith(email_0, <<"@">>) THEN <<>> ELSE email_0
                        email == IF kept # <<>> THEN strip(lower(kept)) ELSE kept
                    IN  [email |-> email,
                         changed |-> kept # <<>> /\ email # strip(lower(original_email))]
                lowered == Lowered(with_at)
            IN  [data |-> Put(d, "email", TextValue(lowered.email)),
                 fixes |-> (IF add
                            THEN <<Fix("Fixed email: added @ symbol", original_email, with_at)>>
                            ELSE <<>>)
                           \o (IF lowered.changed
                               THEN <<Fix("Normalized email to lowercase", <<>>, <<>>)>>
                               ELSE <<>>)]
        \* auto_fix_row, lines 368-386: the phone
        FixPhone(d) ==
            IF "phone" \notin Keys(d) THEN [data |-> d, fixes |-> <<>>]
            ELSE
            LET phone == strip(str(Get(d, "phone", None)))
                phone_clean == sub(phone, Digits \cup {"+"})
                padded == <<"0", "0", "0">> \o phone_clean
            IN  IF phone = <<>> \/ phone \in NullVariants THEN [data |-> d, fixes |-> <<>>]
                ELSE IF Len(phone_clean) < 10 /\ Len(phone_clean) >= 7
                THEN [data |-> Put(d, "phone", TextValue(padded)),
                      fixes |-> <<Fix("Phone number padded with placeholder area code",
                                      phone, padded)>>]
                ELSE IF Len(phone_clean) < 7
                THEN [data |-> Put(d, "phone", TextValue(<<>>)),
                      fixes |-> <<Fix("Phone number too short, cleared", phone, <<>>)>>]
                ELSE [data |-> Put(d, "phone", TextValue(phone_clean)), fixes |-> <<>>]
        \* auto_fix_row, lines 388-403: the name
        FixName(d) ==
            IF "name" \notin Keys(d) THEN [data |-> d, fixes |-> <<>>]
            ELSE
            LET name == strip(str(Get(d, "name", None)))
                email == str(Get(d, "email", TextValue(<<>>)))
                email_prefix == split(email, {"@"})[1]
                name_parts == NonEmpty(split(email_prefix, {".", "_", "-"}))
                extracted_name == join([i \in DOMAIN name_parts |-> capitalize(name_parts[i])],
                                       <<" ">>)
            IN  IF /\ name = <<>> \/ name \in NullVariants
                   /\ "email" \in Keys(d)
                   /\ contains(email, <<"@">>)
                   /\ Len(extracted_name) >= 2
                THEN [data |-> Put(d, "name", TextValue(extracted_name)),
                      fixes |-> <<Fix("Extracted name from email", extracted_name, <<>>)>>]
                ELSE [data |-> d, fixes |-> <<>>]
        \* auto_fix_row, lines 405-413: an email in another column
        FindEmail(d) ==
            LET found == {i \in DOMAIN d :
                             /\ d[i][1] # "email"
                             /\ bool(d[i][2])
                             /\ contains(str(d[i][2]), <<"@">>)
                             /\ EmailRegex(lower(strip(str(d[i][2]))))}
                potential_email == lower(strip(str(d[Least(found)][2])))
            IN  IF /\ "email" \in Keys(d)
                   /\ ~bool(Get(d, "email", None)) \/ (Get(d, "email", None).t = "text" /\ Get(d, "email", None).chars \in NullVariants)
                   /\ found # {}
                THEN [data |-> Put(d, "email", TextValue(potential_email)),
                      fixes |-> <<Fix("Found email in column", d[Least(found)][1],
                                      potential_email)>>]
                ELSE [data |-> d, fixes |-> <<>>]
        e == FixEmail(row_dict)
        p == FixPhone(e.data)
        n == FixName(p.data)
        f == FindEmail(n.data)
    IN  [data |-> f.data, fixes |-> e.fixes \o p.fixes \o n.fixes \o f.fixes]

Raised(text, detail) == [exc |-> "ValidationError", msg |-> <<text, detail>>]

Returned(d) == [exc |-> "none", data |-> d]

\* validate_row_lenient (lines 421-450) on strings, NaN and None, for which
\* pd.isna gives one truth value
validate_row_lenient(row_dict) ==
    LET email == strip(str(Get(row_dict, "email", TextValue(<<>>))))
        with_email == Put(row_dict, "email", TextValue(lower(email)))
        phone == strip(str(Get(with_email, "phone", None)))
        phone_clean == sub(phone, Digits \cup {"+"})
        with_phone ==
            IF /\ "phone" \in Keys(with_email)
               /\ bool(Get(with_email, "phone", None))
               /\ phone \notin NullVariants
            THEN Put(with_email, "phone",
                     IF phone_clean # <<>> THEN TextValue(phone_clean) ELSE None)
            ELSE with_email
        name == strip(str(Get(with_phone, "name", TextValue(<<>>))))
        with_name ==
            IF "name" \in Keys(with_phone)
            THEN Put(with_phone, "name",
                     IF name # <<>> /\ name \notin NullVariants
                     THEN TextValue(name) ELSE None)
            ELSE with_phone
    IN  IF \A i \in DOMAIN row_dict :
              IsNa(row_dict[i][2]) \/ strip(str(row_dict[i][2])) \in NullVariants
        THEN Raised("Row is completely empty", <<>>)
        ELSE IF email = <<>> \/ email \in NullVariants
        THEN Raised("Missing required field: email", <<>>)
        ELSE IF ~EmailRegex(email)
        THEN Raised("Invalid email format", email)
        ELSE Returned(with_name)

\* validate_row (lines 563-592)
validate_row(row_dict) ==
    LET cell == Get(row_dict, "email", None)
        email == lower(strip(str(cell)))
        phone == Get(row_dict, "phone", None)
        digits == sub(str(phone), Digits)
        checked == "phone" \in Keys(row_dict) /\ bool(phone) /\ ~IsNa(phone)
        errors == (IF ~EmailRegex(email) THEN <<"Invalid email format">> ELSE <<>>)
                  \o (IF checked /\ Len(digits) < 10
                      THEN <<"Phone number must have at least 10 digits">> ELSE <<>>)
        with_email == Put(row_dict, "email", TextValue(email))
    IN  IF "email" \notin Keys(row_dict) \/ IsNa(cell) \/ strip(str(cell)) = <<>>
        THEN Raised("Missing required columns", <<"email">>)
        ELSE IF errors # <<>>
        THEN Raised("Validation errors", errors)
        ELSE Returned(IF checked THEN Put(with_email, "phone", TextValue(digits))
                      ELSE with_email)

\* normalize_data (lines 594-617) on strings, NaN and None
normalize_data(data) ==
    LET isdigit(s) == s # <<>> /\ \A i \in DOMAIN s : s[i] \in Digits
        zfill5(s) == [i \in 1..(5 - Len(s)) |-> "0"] \o s
        first == [i \in DOMAIN data |->
                    LET key == data[i][1]
                        value == data[i][2]
                    IN  <<key,
                          IF IsNa(value) THEN None
                          ELSE IF key \in {"name", "city"}
                          THEN TextValue(title(strip(value.chars)))
                          ELSE TextValue(lower(strip(value.chars)))>>]
        name_parts == NonEmpty(split(str(Get(first, "name", None)), Whitespace))
        named ==
            IF "name" \in Keys(first) /\ bool(Get(first, "name", None))
            THEN Put(Put(first, "first_name",
                         TextValue(IF name_parts # <<>> THEN name_parts[1] ELSE <<>>)),
                     "last_name",
                     TextValue(IF Len(name_parts) > 1
                               THEN join(Tail(name_parts), <<" ">>) ELSE <<>>))
            ELSE first
        address == NonEmpty(split(str(Get(named, "address", None)), Whitespace))
        addressed ==
            IF "address" \in Keys(named) /\ bool(Get(named, "address", None))
            THEN Put(named, "address", TextValue(join(address, <<" ">>)))
            ELSE named
        zip_code == split(str(Get(addressed, "zip", None)), {"-"})[1]
    IN  IF "zip" \in Keys(addressed) /\ bool(Get(addressed, "zip", None))
        THEN Put(addressed, "zip",
                 TextValue(IF isdigit(zip_code) /\ Len(zip_code) < 5
                           THEN zfill5(zip_code) ELSE zip_code))
        ELSE addressed

\* the rows of the files that have a delimiter, that is two columns or more: the
\* cells of the columns email, name, phone, contact and state as read_csv delivers
\* them (dtype=str; the null variants, the empty cell among them, read as NaN);
\* Absent stands for a file without the column
TextRows ==
    LET Absent == [t |-> "absent"]
        EmailTextCells ==
            {NaN,
             TextValue(<<"n", "o", "t", "-", "a", "n", "-", "e", "m", "a", "i", "l">>),
             TextValue(<<"J", "o", "h", "n", "D", "o", "e", ".", "e", "x", "a", "m", "p", "l", "e", ".", "c", "o", "m">>),
             TextValue(<<" ", "A", "@", "B", ".", "c", "o", " ">>),
             TextValue(<<"a", "@", "b", ".", "c", "o">>),
             TextValue(<<KelvinSign, "@", "b", ".", "c", "o">>),
             TextValue(<<"@", "x", ".", "c", "o", "m">>),
             TextValue(<<" ">>)}
        NameTextCells == {Absent, NaN, TextValue(<<" ">>), TextValue(<<"A">>)}
        PhoneTextCells ==
            {Absent, NaN,
             TextValue(<<"5", "5", "5", "-", "1", "2", "3", "4">>),
             TextValue(<<"1", "2", "3", "4", "5">>),
             TextValue(<<"+", "1", " ", "(", "5", "5", "5", ")", " ", "1", "2", "3", "-", "4", "5", "6", "7">>)}
        ContactTextCells ==
            {Absent, NaN, TextValue(<<"j", "a", "n", "e", "@", "x", ".", "c", "o", "m">>)}
        StateTextCells == {Absent, TextValue(<<"C", "a">>)}
        TextRow(e, n, p, c, s) ==
            SelectSeq(<<<<"email", e>>, <<"name", n>>, <<"phone", p>>, <<"contact", c>>,
                        <<"state", s>>>>,
                      LAMBDA pair : pair[2] # Absent)
    IN  {r \in {TextRow(e, n, p, c, s) : e \in EmailTextCells, n \in NameTextCells,
                                         p \in PhoneTextCells, c \in ContactTextCells,
                                         s \in StateTextCells} :
            Len(r) >= 2}

InitText ==
    /\ InitPipeline
    /\ IdleRow
    /\ IdleWorker
    /\ IdleUpload
    /\ IdleHash
    /\ IdleDelimiter
    /\ IdleConnections
    /\ IdleDelete
    /\ tpc = "auto_fix"
    /\ source \in TextRows
    /\ text_data = <<>>
    /\ text_fixes = <<>>
    /\ again = [applied |-> FALSE]
    /\ both = [applied |-> FALSE]
    /\ text_outcome = NoOutcome

\* process_row, line 268
TextAutoFix ==
    /\ tpc = "auto_fix"
    /\ \E fixed \in {auto_fix_row(source)} :
          /\ text_data' = fixed.data
          /\ text_fixes' = fixed.fixes
    /\ tpc' = "validate"
    /\ UNCHANGED <<source, again, both, text_outcome, outside_text>>

\* auto_fix_row on the row that auto_fix_row returned
TextAutoFixAgain ==
    /\ tpc = "validate"
    /\ again = [applied |-> FALSE]
    /\ \E fixed \in {auto_fix_row(text_data)} :
          again' = [applied |-> TRUE, before |-> text_data,
                    data |-> fixed.data, fixes |-> fixed.fixes]
    /\ UNCHANGED <<tpc, source, text_data, text_fixes, both, text_outcome, outside_text>>

\* validate_row and validate_row_lenient on the same row of the reader
TextValidateBoth ==
    /\ both = [applied |-> FALSE]
    /\ both' = [applied |-> TRUE, strict |-> validate_row(source),
                lenient |-> validate_row_lenient(source)]
    /\ UNCHANGED <<tpc, source, text_data, text_fixes, again, text_outcome, outside_text>>

\* process_row, lines 271-293, with ai_fixer.enabled False: the error of the
\* validation is raised again, and process_batch records it (lines 240-244)
TextValidate ==
    /\ tpc = "validate"
    /\ LET v == validate_row_lenient(text_data) IN
          IF v.exc = "none"
          THEN /\ text_data' = v.data
               /\ tpc' = "normalize"
               /\ UNCHANGED text_outcome
          ELSE /\ tpc' = "done"
               /\ text_outcome' = [result |-> "rejected",
                                   error_code |-> "VALIDATION_ERROR",
                                   error_message |-> v.msg,
                                   raw_data |-> source]
               /\ UNCHANGED text_data
    /\ UNCHANGED <<source, text_fixes, again, both, outside_text>>

\* process_row, lines 295-327, with no Record in the store: the query of line
\* 303 finds nothing and the row is inserted
TextStore ==
    /\ tpc = "normalize"
    /\ \E normalized_data \in {normalize_data(text_data)} :
          text_outcome' = [result |-> "inserted",
                           normalized_data |->
                               IF text_fixes # <<>>
                               THEN Put(normalized_data, "_fixes_applied",
                                        [t |-> "fixes", fixes |-> text_fixes])
                               ELSE normalized_data,
                           raw_data |-> source]
    /\ tpc' = "done"
    /\ UNCHANGED <<source, text_data, text_fixes, again, both, outside_text>>

NextText ==
    \/ TextAutoFix
    \/ TextAutoFixAgain
    \/ TextValidateBoth
    \/ TextValidate
    \/ TextStore

SpecText == InitText /\ [][NextText]_vars

\* ---------------------------------------------------------- the delimiter
\* delimiters = [',', '\t', ';', '|'] (line 144)
delimiters == <<",", "\t", ";", "|">>

\* first lines: the candidates and a character that is none of them
FirstLines ==
    UNION {[1..n -> {delimiters[i] : i \in DOMAIN delimiters} \cup {"e"}] : n \in 0..MaxLine}

\* a max that returns the last of the keys with the greatest count
detect_delimiter_last(line) ==
    LET delimiter_counts ==
            [i \in DOMAIN delimiters |->
                Cardinality({j \in DOMAIN line : line[j] = delimiters[i]})]
        best == CHOOSE i \in DOMAIN delimiters :
                    /\ \A j \in DOMAIN delimiters : delimiter_counts[j] <= delimiter_counts[i]
                    /\ \A j \in (i + 1)..Len(delimiters) :
                           delimiter_counts[j] < delimiter_counts[i]
    IN  IF delimiter_counts[best] = 0 THEN "FileIntegrityError" ELSE delimiters[best]

\* detect_delimiter (lines 139-158): first_line.count(delim) for each candidate;
\* max over the dictionary returns the first key, in insertion order, whose
\* count is the greatest
detect_delimiter(line) ==
    LET delimiter_counts ==
            [i \in DOMAIN delimiters |->
                Cardinality({j \in DOMAIN line : line[j] = delimiters[i]})]
        best == CHOOSE i \in DOMAIN delimiters :
                    /\ \A j \in DOMAIN delimiters : delimiter_counts[j] <= delimiter_counts[i]
                    /\ \A j \in 1..(i - 1) : delimiter_counts[j] < delimiter_counts[i]
    IN  IF delimiter_counts[best] = 0 THEN "FileIntegrityError" ELSE delimiters[best]

InitDelimiter ==
    /\ InitPipeline
    /\ IdleRow
    /\ IdleWorker
    /\ IdleUpload
    /\ IdleHash
    /\ IdleText
    /\ IdleConnections
    /\ IdleDelete
    /\ dpc = "read"
    /\ first_line \in FirstLines
    /\ best_delimiter = "none"

\* process_csv, line 36: delimiter = await self.detect_delimiter(file_path, encoding)
DetectFirstLine ==
    /\ dpc = "read"
    /\ best_delimiter' = detect_delimiter(first_line)
    /\ dpc' = "counted"
    /\ UNCHANGED <<first_line, outside_delimiter>>

NextDelimiter == DetectFirstLine

SpecDelimiter == InitDelimiter /\ [][NextDelimiter]_vars

\* -------------------------------------------------------- the connections
\* ConnectionManager (main.py, lines 33-77) and the two websocket endpoints
\* (lines 571-591).  A websocket is open from its connect until its peer goes
\* away; from then on every send to it raises.

\* list.remove(x): the list without the first x
Remove(list, x) ==
    LET first == CHOOSE i \in DOMAIN list : list[i] = x /\ \A j \in 1..(i - 1) : list[j] # x
    IN  [i \in 1..(Len(list) - 1) |-> IF i < first THEN list[i] ELSE list[i + 1]]

In(list, x) == \E i \in DOMAIN list : list[i] = x

Broken(w) == websockets[w].state = "broken"

InitConnections ==
    /\ InitPipeline
    /\ IdleRow
    /\ IdleWorker
    /\ IdleUpload
    /\ IdleHash
    /\ IdleText
    /\ IdleDelimiter
    /\ IdleDelete
    /\ IdleConnections

\* connect (lines 38-44), called by an endpoint with its run id or, for /ws,
\* with none (0)
connect(w, run_id) ==
    /\ websockets[w] = NoSocket
    /\ active_connections' = Append(active_connections, w)
    /\ run_connections' =
          IF run_id = 0 THEN run_connections
          ELSE [r \in DOMAIN run_connections \cup {run_id} |->
                   IF r = run_id
                   THEN Append(IF r \in DOMAIN run_connections
                               THEN run_connections[r] ELSE <<>>, w)
                   ELSE run_connections[r]]
    /\ websockets' = [websockets EXCEPT ![w] = [state |-> "open", run_id |-> run_id]]
    /\ UNCHANGED <<raised, outside_connections>>

\* the peer of an open websocket goes away
PeerCloses(w) ==
    /\ websockets[w] # NoSocket
    /\ websockets[w].state = "open"
    /\ websockets' = [websockets EXCEPT ![w].state = "broken"]
    /\ UNCHANGED <<active_connections, run_connections, raised, outside_connections>>

\* the endpoint's ping raises WebSocketDisconnect (lines 574-580, 585-591) and
\* its handler calls disconnect (lines 46-51): list.remove raises ValueError for
\* a websocket that is not in the list
disconnect(w) ==
    /\ websockets[w] # NoSocket
    /\ Broken(w)
    /\ websockets' = [websockets EXCEPT ![w].state = "closed"]
    /\ LET run_id == websockets[w].run_id IN
       IF ~In(active_connections, w)
       THEN /\ raised' = [raised EXCEPT ![w] = "ValueError"]
            /\ UNCHANGED <<active_connections, run_connections>>
       ELSE /\ active_connections' = Remove(active_connections, w)
            /\ IF run_id # 0 /\ run_id \in DOMAIN run_connections
               THEN IF ~In(run_connections[run_id], w)
                    THEN /\ raised' = [raised EXCEPT ![w] = "ValueError"]
                         /\ UNCHANGED run_connections
                    ELSE /\ run_connections' =
                               IF Remove(run_connections[run_id], w) = <<>>
                               THEN [r \in DOMAIN run_connections \ {run_id} |->
                                        run_connections[r]]
                               ELSE [run_connections EXCEPT
                                        ![run_id] = Remove(@, w)]
                         /\ UNCHANGED raised
               ELSE UNCHANGED <<run_connections, raised>>
    /\ UNCHANGED outside_connections

\* the loop of broadcast (lines 57-62) from position i on: a connection whose
\* send raises is removed from the list the loop is going through, and the
\* loop goes on with the position after
RECURSIVE BroadcastFrom(_, _)
BroadcastFrom(list, i) ==
    IF i > Len(list) THEN list
    ELSE IF Broken(list[i]) THEN BroadcastFrom(Remove(list, list[i]), i + 1)
    ELSE BroadcastFrom(list, i + 1)

\* broadcast (lines 56-62)
broadcast ==
    /\ active_connections # <<>>
    /\ active_connections' = BroadcastFrom(active_connections, 1)
    /\ UNCHANGED <<run_connections, websockets, raised, outside_connections>>

\* broadcast_to_run (lines 64-77)
broadcast_to_run(run_id) ==
    /\ run_id \in DOMAIN run_connections
    /\ LET disconnected == SelectSeq(run_connections[run_id], Broken)
           left(list) == SelectSeq(list, LAMBDA w : ~In(disconnected, w))
       IN  /\ run_connections' = [run_connections EXCEPT ![run_id] = left(@)]
           /\ active_connections' = left(active_connections)
    /\ UNCHANGED <<websockets, raised, outside_connections>>

NextConnections ==
    \/ \E w \in WebSockets, run_id \in {0} \cup RunIds : connect(w, run_id)
    \/ \E w \in WebSockets : PeerCloses(w)
    \/ \E w \in WebSockets : disconnect(w)
    \/ broadcast
    \/ \E run_id \in RunIds : broadcast_to_run(run_id)

SpecConnections == InitConnections /\ [][NextConnections]_vars

\* ------------------------------------------------------------- the claims
Accepted(e) == e.v = "ok" /\ e.outcome \in {"inserted", "updated", "skipped"}

BatchOf(i) == (i - 1) \div BatchSize

Finished(r) == pc[r] = "done" /\ exc[r] = NoExc

RecordsWith(h) == {d \in data_rows : d.row_hash = h}

C2_CrossRunUpsert ==
    [][\A b \in RunIds : \A h \in Hashes :
          ( /\ Len(log'[b]) = Len(log[b]) + 1
            /\ log'[b][Len(log'[b])].v = "ok"
            /\ log'[b][Len(log'[b])].h = h
            /\ faults' = faults
            /\ \E d \in data_rows :
                  d.row_hash = h /\ d.run_id # b /\ pc[d.run_id] = "done" )
          => ( /\ log'[b][Len(log'[b])].outcome = "updated"
               /\ \A d \in data_rows' : d.row_hash = h => d.run_id = b
               /\ Cardinality({d \in data_rows' : d.row_hash = h}) = 1 )]_vars

\* run b took over a Record that run a had inserted, and both have finished
C2_Witness ==
    \E a \in RunIds, b \in RunIds :
        /\ a # b /\ Finished(a) /\ Finished(b)
        /\ \E d \in data_rows :
              /\ d.run_id = b /\ d.raw_data[1] = a
              /\ \E i \in 1..Len(log[b]) :
                    log[b][i].h = d.row_hash /\ log[b][i].outcome = "updated"

\* C3: no two Records of the store have the same identity fingerprint.
C3_FingerprintUnique ==
    \A d1 \in data_rows, d2 \in data_rows : d1.row_hash = d2.row_hash => d1 = d2

\* two overlapping runs both took the insert path for one fingerprint, both
\* tasks have ended and the store holds a Record with it
C3_Witness ==
    \E r \in RunIds, s \in RunIds :
        /\ r # s /\ faults = 0 /\ pc[r] = "done" /\ pc[s] = "done"
        /\ \E i \in 1..Len(log[r]), j \in 1..Len(log[s]) :
              /\ log[r][i].outcome = "inserted" /\ log[s][j].outcome = "inserted"
              /\ log[r][i].h = log[s][j].h
              /\ RecordsWith(log[r][i].h) # {}

Uncommitted(r) == pending[r] \cup flushed[r]

\* C4: two rows of different sessions with one fingerprint never both find the
\* lookup empty and both take the insert path.
C4_LookupInsertGuarded ==
    \A r \in RunIds, s \in RunIds :
        r # s => HashesOf(Uncommitted(r)) \cap HashesOf(Uncommitted(s)) = {}

FromRow(src, r, first) == src[1] = r /\ src[2] >= first

\* C5: once a batch of a run has been rolled back, the run is being aborted and
\* the store holds no Record inserted or updated and no ErrorEntry produced by a
\* row of that batch.
C5_BatchRollbackAtomic ==
    \A r \in RunIds :
        rolled_back[r] >= 0 =>
            /\ pc[r] \in {"csv_except", "file_except", "done"}
            /\ \A d \in data_rows :
                  /\ ~FromRow(d.normalized_data, r, rolled_back[r])
                  /\ ~FromRow(d.raw_data, r, rolled_back[r])
            /\ \A e \in error_logs : ~FromRow(e.raw_data, r, rolled_back[r])

ErrorCodeOf(e) == IF e.v = "invalid" THEN "VALIDATION_ERROR" ELSE "PROCESSING_ERROR"

\* C6: a row whose processing raises inside process_row (log_error itself not
\* being hit by a storage fault) leaves exactly one ErrorEntry with its code, is
\* counted once as rejected, and the batch goes on with the next row.
C6_RowFailureIsolated ==
    [][\A r \in RunIds :
          ( /\ Len(log'[r]) = Len(log[r]) + 1
            /\ log'[r][Len(log'[r])].outcome = "rejected"
            /\ log'[r][Len(log'[r])].v = "invalid" => faults' = faults
            /\ log'[r][Len(log'[r])].v = "error" => faults' = faults + 1 )
          => ( /\ Cardinality({e \in error_logs' : e.raw_data = <<r, idx[r]>>}) = 1
               /\ \A e \in error_logs' :
                     e.raw_data = <<r, idx[r]>>
                        => e.error_code = ErrorCodeOf(log'[r][Len(log'[r])])
               /\ batch_results'[r].rows_rejected = batch_results[r].rows_rejected + 1
               /\ pc'[r] = "rows"
               /\ idx'[r] = idx[r] + 1 )]_vars

\* C7: a run whose status is failed has no Record in the store that it inserted
\* or updated.
C7_FailedMeansNothingIngested ==
    \A r \in RunIds :
        runs[r].status = "failed" =>
            \A d \in data_rows : d.normalized_data[1] # r /\ d.raw_data[1] # r

Terminal == {"completed", "partial_success", "failed"}

\* C8: when the background task of a run has ended, the run is in a terminal
\* status (nothing changes the status of a run after its task has ended).
C8_TerminalStatusReached ==
    \A r \in RunIds : pc[r] = "done" => runs[r].status \in Terminal

\* C9: the persisted status of a run only moves from pending to processing and
\* from processing to a terminal status.
C9_StatusLifecycle ==
    [][\A r \in RunIds :
          runs'[r].status # runs[r].status =>
              \/ runs[r].status = "absent" /\ runs'[r].status = "pending"
              \/ runs[r].status = "pending" /\ runs'[r].status = "processing"
              \/ runs[r].status = "processing" /\ runs'[r].status \in Terminal]_vars

RejectedRows(r) == {i \in 1..Len(log[r]) : log[r][i].outcome = "rejected"}

\* process_csv was entered: the commit of the status processing succeeded
PipelineRan(r) == runs[r].status # "pending"

\* a storage fault hit one of the two handlers that record the failure
RecordingHit(r) == fault_at[r] \in {"csv_except", "file_except"}

\* C10: a task that ended after all batches without an exception left the run
\* completed if no row was rejected and partial_success otherwise; a task in
\* which the pipeline raised left it failed with the error message recorded
\* (the statements that record the failure not being hit by a storage fault).
C10_Finalization ==
    \A r \in RunIds :
        (pc[r] = "done" /\ PipelineRan(r) /\ ~RecordingHit(r)) =>
            IF exc[r] = NoExc
            THEN runs[r].status =
                    (IF RejectedRows(r) = {} THEN "completed" ELSE "partial_success")
            ELSE runs[r].status = "failed" /\ runs[r].error_message # "none"

\* the file-level failures
EmptyFile(f) == f.size = "empty"

HeaderOnly(f) == f.size # "empty" /\ f.rows = 0

DelimiterNotFound(f) == f.size # "empty" /\ Len(f.headers) <= 1

HeaderInvalid(f) ==
    /\ f.size # "empty"
    /\ \/ Repeated(f.headers)
       \/ \A i \in 1..Len(f.headers) : f.headers[i] # "email"

ParseCorrupt(f) == f.parse = "corrupt"

FileLevelFailure(f) ==
    EmptyFile(f) \/ HeaderOnly(f) \/ DelimiterNotFound(f) \/ HeaderInvalid(f)
        \/ ParseCorrupt(f)

OwnedBy(r) == {d \in data_rows : d.normalized_data[1] = r \/ d.raw_data[1] = r}

\* C11: a run whose file has a file-level failure (empty, header only, no
\* delimiter, repeated or missing required header, unparsable) never reaches the
\* rows: process_row is not called, the store holds no Record and no ErrorEntry
\* of the run, and the task ends with the status failed (the statements that
\* record the failure not being hit by a storage fault).
C11_FileFailureAborts ==
    \A r \in RunIds :
        (file[r] # NoFile /\ FileLevelFailure(file[r])) =>
            /\ pc[r] \in {"csv_except", "file_except", "done"}
            /\ log[r] = <<>>
            /\ OwnedBy(r) = {}
            /\ \A e \in error_logs : e.run_id # r
            /\ (pc[r] = "done" /\ fault_at[r] = "none") => runs[r].status = "failed"

\* rows of run r that lie in batches whose commit has returned
CommittedRows(r) ==
    IF rolled_back[r] >= 0 \/ pc[r] = "rows" THEN batch_start[r] ELSE total[r]

Durable(r, i) ==
    LET e == log[r][i] IN
    CASE e.outcome = "inserted" ->
            \E d \in data_rows : d.row_hash = e.h /\ d.raw_data = <<r, i - 1>>
      [] e.outcome \in {"updated", "skipped"} -> RecordsWith(e.h) # {}
      [] e.outcome = "rejected" ->
            \E l \in error_logs : l.raw_data = <<r, i - 1>>

\* C12: every row of a batch whose commit has returned has its Record (its
\* ErrorEntry if it was rejected) in the store in every later state, whatever
\* happens to the later batches and to the run.
C12_CommittedBatchesDurable ==
    \A r \in RunIds :
        /\ CommittedRows(r) <= Len(log[r])
        /\ \A i \in 1..CommittedRows(r) : Durable(r, i)

\* the first batch, with an inserted and a rejected row, was committed, the
\* second batch was rolled back, and the task has ended with the run failed
C12_Witness ==
    \E r \in RunIds :
        /\ pc[r] = "done" /\ runs[r].status = "failed"
        /\ rolled_back[r] = BatchSize
        /\ \E i \in 1..BatchSize, j \in 1..BatchSize :
              /\ log[r][i].outcome = "inserted" /\ log[r][j].outcome = "rejected"
              /\ Durable(r, i) /\ Durable(r, j)

Stages(stage) == {i \in 1..Len(trace) : trace[i].stage = stage}

OriginalError == RowRejected([exc |-> "ValidationError", msg |-> first_error])

\* C13: when AI repair was attempted for a row whose lenient validation failed
\* with e, then if the second validation succeeded the AI-fixed row is the one
\* normalized and stored, and otherwise the ErrorEntry holds exactly e.
C13_FirstErrorWins ==
    (rpc = "done" /\ Stages("ai_call") # {}) =>
        \A i \in Stages("ai_call") :
            IF trace[i + 1].result = "none"
            THEN /\ row_outcome.result = "stored"
                 /\ row_outcome.normalized_data = NormalizeData(fixed_data).data
            ELSE row_outcome = OriginalError

\* C14: the collaborator is called at most once for a row, and only after
\* auto-fix has run and the lenient validation of the auto-fixed row has failed;
\* when it is disabled it is not called, nothing waits in the rate limiter, and
\* the row is rejected with the original error right after the validation.
C14_AiOnlyAfterFailedValidation ==
    /\ Cardinality(Stages("ai_call")) <= 1
    /\ \A i \in Stages("ai_call") :
          /\ enabled
          /\ trace[1].stage = "auto_fix"
          /\ trace[2] = Stage("validate", "ValidationError")
          /\ i > 2
    /\ ~enabled =>
          /\ Stages("ai_call") = {} /\ Stages("rate_limit") = {}
          /\ (rpc = "done" /\ first_error # <<>>) =>
                /\ trace = <<Stage("auto_fix", "none"), Stage("validate", "ValidationError")>>
                /\ row_outcome = OriginalError

\* the collaborator was called once, after the failed validation, and its row
\* was stored
C14_Witness ==
    /\ rpc = "done" /\ enabled
    /\ Cardinality(Stages("ai_call")) = 1
    /\ first_error # <<>>
    /\ row_outcome.result = "stored"

\* the outcomes of the external call that are failures of the collaborator: an
\* exception, a timeout, invalid JSON, JSON that is not an object, a row with
\* nothing changed
AiFailed ==
    \/ response.kind \in {"exception", "timeout", "invalid_json", "not_object"}
    \/ response.kind = "object" /\ fixed_data = AutoFixRow(row, columns).data

\* C15: when the external call fails, fix_row returns the row as it was with an
\* empty fix list and raises nothing, and the row ends accepted or rejected
\* with its original validation error.
C15_AiFailureNotFatal ==
    (response # NoResponse /\ AiFailed) =>
        /\ rpc \in {"revalidate", "normalize", "done"}
        /\ fixed_data = AutoFixRow(row, columns).data
        /\ fixes_applied = AutoFixRow(row, columns).fixes
        /\ row_outcome # NoOutcome =>
              (row_outcome.result = "stored" \/ row_outcome = OriginalError)

\* the external call raised and the row was rejected with its original error
C15_Witness ==
    /\ rpc = "done"
    /\ response.kind = "exception"
    /\ row_outcome = OriginalError
    /\ row_outcome.error_code = "VALIDATION_ERROR"

Window(t) == {i \in 1..Len(admitted) : t - Minute < admitted[i] /\ admitted[i] <= t}

\* C16: at every instant t, the requests the limiter let through in the window
\* (t - Minute, t] are at most requests_per_minute.
C16_RollingWindowBounded ==
    \A t \in 0..MaxTime : Cardinality(Window(t)) <= requests_per_minute

WorkerStep(s) ==
    WorkerUpload(s) \/ WorkerStart(s) \/ RateLimit(s) \/ Wake(s) \/ WorkerFinish(s)

\* C17: while the row of one run waits in the rate limiter, every other run
\* that is not finished, and every upload, can take a step.
C17_WaitBlocksOnlyCaller ==
    \A r \in RunIds, s \in RunIds :
        (r # s /\ wpc[r] = "sleeping" /\ wpc[s] # "done") => ENABLED WorkerStep(s)

\* C18: an upload without force whose content hash is that of an existing run
\* creates no run and queues no task, and the Record and ErrorEntry stores stay
\* as they were: of two runs with one content hash, one was forced.
C18_FileIdempotent ==
    /\ \A r \in RunIds, s \in RunIds :
          (r # s /\ runs[r] # NoRun /\ runs[s] # NoRun /\ file_hash[r] = file_hash[s])
             => (upload[r].force \/ upload[s].force)
    /\ \A r \in RunIds :
          upc[r] = "skipped" => (runs[r] = NoRun /\ pc[r] = "idle")
    /\ data_rows = {} /\ error_logs = {}

\* C19: the fingerprint of a validated row is the same for every order of the
\* row's keys, and the same when it is computed again from the stored JSON text
\* of the record read back.
C19_FingerprintStable ==
    /\ (hpc \in {"hashed", "stored", "reloaded"} /\ variant \in Reordered(validated))
          => hashes.row = hashes.variant
    /\ hpc = "reloaded" => reloaded_hash = hashes.row

C19_Witness ==
    /\ hpc = "reloaded"
    /\ variant \in Reordered(validated) /\ variant # validated
    /\ "_fixes_applied" \in Keys(stored_text)
    /\ "first_name" \in Keys(stored_text)
    /\ reloaded_hash = hashes.row

\* C20: a row that lacks an identity column and a row that has it with a
\* null-like value, equal otherwise, have the same fingerprint.
IdentityKeys == {HashKeys[i] : i \in DOMAIN HashKeys}

C20_MissingIsEmptyString ==
    \A k \in IdentityKeys :
        ( /\ hpc = "hashed"
          /\ k \in Keys(validated) /\ IsNa(Get(validated, k, None))
          /\ variant = Without(validated, k) )
        => hashes.row = hashes.variant

\* C23: the row index of every ErrorEntry and of every Record is the zero-based
\* position of its row in the source, in the first batch and in the later ones.
C23_RowIndexIsPosition ==
    /\ \A d \in data_rows : d.row_index = d.raw_data[2]
    /\ \A e \in error_logs : e.row_index = e.raw_data[2]

\* C27: a run whose file holds a header line and nothing else, whatever the
\* length of the header, fails in the integrity check: it never reaches
\* finalization, it is never completed, it leaves no ErrorEntry, and its task
\* ends with the status failed (the statements that record the failure not
\* being hit by a storage fault).
C27_HeaderOnlyFails ==
    \A r \in RunIds :
        (file[r] # NoFile /\ HeaderOnly(file[r])) =>
            /\ pc[r] \in {"csv_except", "file_except", "done"}
            /\ exc[r] \in {"FileIntegrityError", "Exception"}
            /\ runs[r].status # "completed"
            /\ \A e \in error_logs : e.run_id # r
            /\ (pc[r] = "done" /\ fault_at[r] = "none") => runs[r].status = "failed"

\* C28: when a row of run r gets the outcome updated, the Record with its
\* fingerprint is owned by r afterwards and holds the canonical mapping and the
\* raw mapping of that row, and there is still one Record with the fingerprint.
C28_UpdateOverwritesContent ==
    [][\A r \in RunIds :
          ( /\ Len(log'[r]) = Len(log[r]) + 1
            /\ log'[r][Len(log'[r])].outcome = "updated" )
          => LET h == log'[r][Len(log'[r])].h IN
             /\ Cardinality({d \in data_rows' : d.row_hash = h}) = 1
             /\ \A d \in data_rows' :
                   d.row_hash = h =>
                      /\ d.run_id = r
                      /\ d.normalized_data = <<r, idx[r]>>
                      /\ d.raw_data = <<r, idx[r]>>]_vars

\* C29: the raw mapping recorded with the ErrorEntry or the Record of a row is
\* the row as the reader delivered it: no stage of process_row changes the
\* source row.
C29_RawDataIsSourceRow ==
    [][ /\ row' = row
        /\ row_outcome'.result # "none" => row_outcome'.raw_data = row ]_vars

C29_Witness ==
    /\ rpc = "done"
    /\ response.kind = "object"
    /\ fixes_applied # {}
    /\ \E k \in DOMAIN row : fixed_data[k] # row[k]
    /\ row_outcome.result \in {"stored", "rejected"}
    /\ row_outcome.raw_data = row

\* C21: a row of the reader that validate_row accepts is accepted by
\* validate_row_lenient as well, and the two return the same email.
C21_StrictImpliesLenient ==
    (both.applied /\ both.strict.exc = "none") =>
        /\ both.lenient.exc = "none"
        /\ Get(both.lenient.data, "email", None) = Get(both.strict.data, "email", None)

\* C22: auto_fix_row applied to the row that auto_fix_row returned reports no
\* fix and returns the row as it was given.
C22_AutoFixIdempotent ==
    again.applied => (again.fixes = <<>> /\ again.data = again.before)

\* C25: the row with an empty email, the phone 555-1234 and the contact
\* jane@x.com has the email of the contact column adopted by auto-fix, with the
\* fix recorded, and is inserted.
ContactRow ==
    <<<<"email", NaN>>,
      <<"phone", TextValue(<<"5", "5", "5", "-", "1", "2", "3", "4">>)>>,
      <<"contact", TextValue(<<"j", "a", "n", "e", "@", "x", ".", "c", "o", "m">>)>>>>

C25_EmailFoundInContact ==
    (source = ContactRow /\ tpc = "done") =>
        /\ Get(text_data, "email", None) = TextValue(<<"j", "a", "n", "e", "@", "x", ".", "c", "o", "m">>)
        /\ \E i \in DOMAIN text_fixes :
              text_fixes[i] = Fix("Found email in column", "contact", <<"j", "a", "n", "e", "@", "x", ".", "c", "o", "m">>)
        /\ text_outcome.result = "inserted"

\* C26: for the row with the email JohnDoe.example.com and an empty name,
\* auto-fix makes the email john.doe@example.com and the name John Doe, and the
\* row is inserted.
C26_EmailRebuiltNameDerived ==
    ( /\ tpc = "done"
      /\ Get(source, "email", None) = TextValue(<<"J", "o", "h", "n", "D", "o", "e", ".", "e", "x", "a", "m", "p", "l", "e", ".", "c", "o", "m">>)
      /\ Get(source, "name", None) \in {NaN, TextValue(<<" ">>)}
      /\ "name" \in Keys(source) ) =>
        /\ Get(text_data, "email", None) = TextValue(<<"j", "o", "h", "n", ".", "d", "o", "e", "@", "e", "x", "a", "m", "p", "l", "e", ".", "c", "o", "m">>)
        /\ Get(text_data, "name", None) = TextValue(<<"J", "o", "h", "n", " ", "D", "o", "e">>)
        /\ text_outcome.result = "inserted"

\* C30: a row whose cells are all null-like, delivered by the reader and passed
\* through auto-fix, is rejected as a completely empty row.
C30_EmptyRowRejectedAsEmpty ==
    (tpc = "done" /\ \A i \in DOMAIN source : source[i][2] = NaN) =>
        /\ text_outcome.result = "rejected"
        /\ text_outcome.error_message = <<"Row is completely empty", <<>>>>

\* C24: with AI repair disabled, a run that ended without a storage fault and
\* in which one row was rejected by validation (the row with the email
\* not-an-email) and every other row was accepted has exactly one ErrorEntry,
\* with the code VALIDATION_ERROR and the position of that row as its row index,
\* and ends partial_success.
C24_OneInvalidRowPartialSuccess ==
    \A r \in RunIds :
        ( /\ Finished(r)
          /\ faults = 0
          /\ Cardinality(RejectedRows(r)) = 1
          /\ \A i \in RejectedRows(r) : log[r][i].v = "invalid" ) =>
            /\ runs[r].status = "partial_success"
            /\ Cardinality({e \in error_logs : e.run_id = r}) = 1
            /\ \A e \in error_logs : \A i \in RejectedRows(r) :
                  e.run_id = r =>
                      /\ e.error_code = "VALIDATION_ERROR"
                      /\ e.raw_data = <<r, i - 1>>
                      /\ e.row_index = i - 1

\* the letter case the fields are to have
ClaimedCase(key, s) ==
    CASE key = "email" -> lower(s)
      [] key \in {"name", "city"} -> title(s)
      [] key \in {"state", "country"} -> [i \in DOMAIN s |-> UpperChar(s[i])]
      [] OTHER -> s

\* C31: the normalizer process_row calls gives every string field of the
\* validated row its trimmed value, in lower case for the email, in title case
\* for name and city, in upper case for state and country, and with the case
\* unchanged for every other field.
C31_NormalizerByField ==
    (tpc = "done" /\ text_outcome.result = "inserted") =>
        \A i \in DOMAIN text_data :
            text_data[i][2].t = "text" =>
                Get(text_outcome.normalized_data, text_data[i][1], None)
                    = TextValue(ClaimedCase(text_data[i][1], strip(text_data[i][2].chars)))

\* C32: no field of the canonical mapping of a stored row holds the empty string
\* or a null variant: every null-like value is None.
C32_NullLikeIsAbsent ==
    (tpc = "done" /\ text_outcome.result = "inserted") =>
        \A i \in DOMAIN text_outcome.normalized_data :
            LET value == text_outcome.normalized_data[i][2]
            IN  value.t = "text" => strip(value.chars) \notin NullVariants

\* the file passes the checks made before the header validation
ReachesHeaderValidation(f) ==
    /\ ValidateFileIntegrity(f) = "ok"
    /\ DetectDelimiter(f) = "ok"
    /\ ReadFile(f) = "ok"

\* C33: when process_csv comes to the header validation of a file, the
\* validation raises (the run leaves by the except branch) if and only if the
\* header line names a column twice or does not name the column email.
C33_HeaderValidation ==
    [][\A r \in RunIds :
          (pc[r] = "process_csv" /\ pc'[r] # "process_csv"
              /\ ReachesHeaderValidation(file'[r])) =>
              (pc'[r] = "csv_except"
                  <=> \/ Repeated(file'[r].headers)
                      \/ \A i \in 1..Len(file'[r].headers) :
                             file'[r].headers[i] # "email")]_vars

\* occurrences of the character c in the first line
InFirstLine(c) == Cardinality({i \in DOMAIN first_line : first_line[i] = c})

\* place of a candidate in the order comma, tab, semicolon, pipe
Place(c) == CHOOSE i \in DOMAIN delimiters : delimiters[i] = c

Candidates == {",", "\t", ";", "|"}

OutcomeCounters ==
    <<<<"inserted", "rows_inserted">>, <<"updated", "rows_updated">>,
      <<"skipped", "rows_skipped">>, <<"rejected", "rows_rejected">>>>

\* rows at the positions lo .. hi - 1 of run r that got the outcome
RowsWithOutcome(r, lo, hi, outcome) ==
    Cardinality({i \in (lo + 1)..hi : log[r][i].outcome = outcome})

SumOfCounters(res) ==
    res.rows_inserted + res.rows_updated + res.rows_skipped + res.rows_rejected

\* C35: while run r is in its batches, and when all of them are finished, each
\* of the four outcome counters of process_csv holds the number of rows of the
\* finished batches that got that outcome, and each counter of process_batch
\* the number of such rows of the current batch, so that every row is counted
\* once; errors_count equals rows_rejected in both; and once all batches are
\* finished the four counters add up to total_rows.
C35_CounterConservation ==
    \A r \in RunIds :
        pc[r] \in {"rows", "finalize"} =>
            LET finished == IF pc[r] = "finalize" THEN total[r] ELSE batch_start[r]
            IN  /\ Len(log[r]) = idx[r]
                /\ \A i \in DOMAIN OutcomeCounters :
                      /\ results[r][OutcomeCounters[i][2]]
                            = RowsWithOutcome(r, 0, finished, OutcomeCounters[i][1])
                      /\ pc[r] = "rows" =>
                            batch_results[r][OutcomeCounters[i][2]]
                              = RowsWithOutcome(r, finished, idx[r], OutcomeCounters[i][1])
                /\ SumOfCounters(results[r]) = finished
                /\ pc[r] = "rows" => SumOfCounters(batch_results[r]) = idx[r] - finished
                /\ results[r].errors_count = results[r].rows_rejected
                /\ batch_results[r].errors_count = batch_results[r].rows_rejected

\* a run of three rows in two batches is through, with a row rejected in the
\* first batch and a row skipped in the second
C35_Witness ==
    \E r \in RunIds :
        /\ pc[r] = "finalize"
        /\ total[r] = 3
        /\ log[r][2].outcome = "rejected"
        /\ log[r][3].outcome = "skipped"
        /\ results[r].rows_inserted = 1

\* C36: once run r is finalized as completed or partial_success, the
\* errors_count of its Run equals the number of ErrorEntry rows stored for r,
\* and both equal the rows_rejected of the Run.
C36_ErrorsCountPersisted ==
    \A r \in RunIds :
        (pc[r] = "done" /\ runs[r].status \in {"completed", "partial_success"}) =>
            /\ runs[r].errors_count = Cardinality({e \in error_logs : e.run_id = r})
            /\ runs[r].errors_count = runs[r].rows_rejected

\* the two mappings have the same identity fields with the same values
SameIdentity(a, b) ==
    \A i \in DOMAIN HashKeys :
        /\ HashKeys[i] \in Keys(a) <=> HashKeys[i] \in Keys(b)
        /\ Get(a, HashKeys[i], None) = Get(b, HashKeys[i], None)

\* C37: when the second of two rows of a run comes to the store and its
\* canonical mapping has the identity fields of the first row's, whatever its
\* other columns and whether or not the first was stored with fixes, the two
\* fingerprints are equal, the second row is skipped, and the text stored for
\* the first row is left as it is.
C37_FingerprintOfIdentityFields ==
    [][(hpc = "reloaded" /\ hpc' # "reloaded"
           /\ SameIdentity(normalized.row.items, normalized.variant.items)) =>
          /\ hashes.variant = hashes.row
          /\ hpc' = "skipped"
          /\ stored_text' = stored_text]_vars

\* a row with notes and the same row without them: the second was skipped
C37_Witness ==
    /\ hpc = "skipped"
    /\ Get(validated, "notes", None) = Text("vip", "upper", FALSE)
    /\ variant = Without(validated, "notes")
    /\ Get(JsonLoads(stored_text), "notes", None) # None

\* the Records of the table together with those the session of r holds
RecordsSeenBy(r) == data_rows \cup flushed[r] \cup pending[r]

C39_ReferentialIntegrity ==
    /\ [](/\ \A d \in data_rows : runs[d.run_id] # NoRun
          /\ \A e \in error_logs : runs[e.run_id] # NoRun)
    /\ [][\A r \in RunIds :
             (runs[r] # NoRun /\ runs'[r] = NoRun) =>
                 /\ data_rows' = {d \in data_rows : d.run_id # r}
                 /\ error_logs' = {e \in error_logs : e.run_id # r}
                 /\ \A s \in RunIds \ {r} : runs'[s] = runs[s]]_vars

Listed(w) == \E r \in DOMAIN run_connections : In(run_connections[r], w)

\* C40: in every state every websocket listed under a run is in
\* active_connections, and no disconnect has raised; and a step of broadcast or
\* broadcast_to_run that takes a failed connection out of a list leaves it in
\* neither active_connections nor the list of any run.
C40_RegistryConsistent ==
    /\ [](\A w \in WebSockets :
             /\ Listed(w) => In(active_connections, w)
             /\ raised[w] = "none")
    /\ [][websockets' = websockets =>
             \A w \in WebSockets :
                 (\/ In(active_connections, w) /\ ~In(active_connections', w)
                  \/ Listed(w) /\ ~Listed(w)') =>
                     ~In(active_connections', w) /\ ~Listed(w)']_vars

====
